---------------------------- MODULE Spec2Model ----------------------------
(***************************************************************************)
(* A model of packages/tailwindcss/src/ast.ts: the node model, the tree     *)
(* walkers (walk, walkDepth), the optimizer (optimizeAst) and the           *)
(* serializer (toCss).                                                      *)
(*                                                                          *)
(* Strings are sequences of one-character strings, so that lengths,         *)
(* concatenation, slicing and substring tests are computed as the code      *)
(* computes them.  Object identity (nodes, child lists, Offsets records) is *)
(* modelled by identifiers: every input node carries an id; the shallow     *)
(* copy { ...node, nodes: [] } the optimizer makes of a rule keeps the id   *)
(* of its source (the source object itself never reaches the output), and   *)
(* keeps its oid, the identity of the offsets object both share.            *)
(***************************************************************************)
EXTENDS Integers, Sequences, FiniteSets, TLC

VARIABLES
    pc,          \* position in the optimize -> serialize pipeline, or "walk"
    ast,         \* the input tree handed to optimizeAst
    polyfills,   \* the polyfill flag set: a subset of {"AtProperty", "ColorMix"}
    themeUsed,   \* variables for which theme.getOptions reports STATIC or USED
    track,       \* toCss's track argument
    opt,         \* optimizeAst's locals: newAst, atRoots, cssThemeVariables, ...
    prev,        \* opt as it was before the last optimizer step
    css,         \* the text toCss returned
    pos,         \* toCss's cursor
    dst,         \* the dst of every Offsets record: <<oid, field>> -> span
    writes,      \* every assignment to a dst, in order
    wtree,       \* the list walk / walkDepth is called on
    wfn,         \* "walk" or "walkDepth"
    stack,       \* the call stack of the walker: one frame per active call
    ret,         \* the value the last finished walk call returned
    visits,      \* the visit calls made so far, in order
    events,      \* visit / replace / return events, in order
    fresh        \* number of nodes created by the visitor so far

vars == <<pc, ast, polyfills, themeUsed, track, opt, prev, css, pos, dst, writes,
          wtree, wfn, stack, ret, visits, events, fresh>>

---------------------------------------------------------------------------
(* String literals of the program *)
S_tw_sort == <<"-", "-", "t", "w", "-", "s", "o", "r", "t">>
S_initial == <<"i", "n", "i", "t", "i", "a", "l">>
S_var_open == <<"v", "a", "r", "(">>
S_animation == <<"a", "n", "i", "m", "a", "t", "i", "o", "n">>
S_color_mix == <<"c", "o", "l", "o", "r", "-", "m", "i", "x">>
S_color_mix_open == S_color_mix \o <<"(">>
S_amp == <<"&">>
S_at_property == <<"@", "p", "r", "o", "p", "e", "r", "t", "y">>
S_initial_value == <<"i", "n", "i", "t", "i", "a", "l", "-", "v", "a", "l", "u", "e">>
S_inherits == <<"i", "n", "h", "e", "r", "i", "t", "s">>
S_true == <<"t", "r", "u", "e">>
S_at_keyframes == <<"@", "k", "e", "y", "f", "r", "a", "m", "e", "s">>
S_at_layer == <<"@", "l", "a", "y", "e", "r">>
S_at_charset == <<"@", "c", "h", "a", "r", "s", "e", "t">>
S_at_custom_media == <<"@", "c", "u", "s", "t", "o", "m", "-", "m", "e", "d", "i", "a">>
S_at_namespace == <<"@", "n", "a", "m", "e", "s", "p", "a", "c", "e">>
S_at_import == <<"@", "i", "m", "p", "o", "r", "t">>
S_animate_prefix == <<"-", "-", "a", "n", "i", "m", "a", "t", "e", "-">>
S_root_host == <<":", "r", "o", "o", "t", ",", " ", ":", "h", "o", "s", "t">>
S_universal == <<"*", ",", " ", ":", ":", "b", "e", "f", "o", "r", "e", ",", " ", ":", ":", "a", "f", "t", "e", "r", ",", " ", ":", ":", "b", "a", "c", "k", "d", "r", "o", "p">>
S_properties == <<"p", "r", "o", "p", "e", "r", "t", "i", "e", "s">>
S_at_supports == <<"@", "s", "u", "p", "p", "o", "r", "t", "s">>
S_supports_query == <<"(", "(", "-", "w", "e", "b", "k", "i", "t", "-", "h", "y", "p", "h", "e", "n", "s", ":", " ", "n", "o", "n", "e", ")", " ", "a", "n", "d", " ", "(", "n", "o", "t", " ", "(", "m", "a", "r", "g", "i", "n", "-", "t", "r", "i", "m", ":", " ", "i", "n", "l", "i", "n", "e", ")", ")", ")", " ", "o", "r", " ", "(", "(", "-", "m", "o", "z", "-", "o", "r", "i", "e", "n", "t", ":", " ", "i", "n", "l", "i", "n", "e", ")", " ", "a", "n", "d", " ", "(", "n", "o", "t", " ", "(", "c", "o", "l", "o", "r", ":", "r", "g", "b", "(", "f", "r", "o", "m", " ", "r", "e", "d", " ", "r", " ", "g", " ", "b", ")", ")", ")", ")">>
S_color_mix_query == <<"(", "c", "o", "l", "o", "r", ":", " ", "c", "o", "l", "o", "r", "-", "m", "i", "x", "(", "i", "n", " ", "l", "a", "b", ",", " ", "r", "e", "d", ",", " ", "r", "e", "d", ")", ")">>
S_important == <<" ", "!", "i", "m", "p", "o", "r", "t", "a", "n", "t">>
S_undefined == <<"u", "n", "d", "e", "f", "i", "n", "e", "d">>
S_srgb == <<"s", "r", "g", "b">>
S_oklab == <<"o", "k", "l", "a", "b">>
S_oklch == <<"o", "k", "l", "c", "h">>
S_lab == <<"l", "a", "b">>
S_lch == <<"l", "c", "h">>
S_currentcolor == <<"c", "u", "r", "r", "e", "n", "t", "c", "o", "l", "o", "r">>

(* Strings the inputs are built from *)
S_color == <<"c", "o", "l", "o", "r">>
S_red == <<"r", "e", "d">>
S_blue == <<"b", "l", "u", "e">>
S_sel_a == <<".", "a">>
S_sel_b == <<".", "b">>
S_var_a == <<"-", "-", "a">>
S_var_b == <<"-", "-", "b">>
S_var_c == <<"-", "-", "c">>
S_var_x == <<"-", "-", "x">>
S_var_y == <<"-", "-", "y">>
S_one == <<"1">>
S_media == <<"@", "m", "e", "d", "i", "a">>
S_print == <<"p", "r", "i", "n", "t">>
S_note == <<"n", "o", "t", "e">>
S_spin == <<"s", "p", "i", "n">>
S_false == <<"f", "a", "l", "s", "e">>
S_theme_name == <<"t", "h", "e", "m", "e">>
S_mix_current ==
    S_color_mix_open \o <<"i", "n", " ">> \o S_oklab \o <<",", " ">>
        \o <<"c", "u", "r", "r", "e", "n", "t", "C", "o", "l", "o", "r", " ", "5", "0", "%">>
        \o <<",", " ">> \o S_red \o <<")">>
S_mix_short == S_color_mix_open \o S_var_open \o S_var_c \o <<")", ")">>
S_mix_unclosed ==
    S_color_mix_open \o <<"i", "n", " ">> \o S_oklab \o <<",", " ">> \o S_var_open \o S_var_c
        \o <<")", ",", " ">> \o S_red
S_mix_crlf == S_mix_unclosed \o <<")", "\r", "\n">> \o S_mix_unclosed \o <<")">>
S_mix == S_color_mix_open \o <<"i", "n", " ">> \o S_oklab \o <<",", " ">> \o S_var_open \o S_var_c \o <<")", ",", " ">> \o S_red \o <<")">>
S_ref_a == S_var_open \o S_var_a \o <<")">>
S_ref_b == S_var_open \o S_var_b \o <<")">>
S_ref_ab == S_ref_a \o <<" ">> \o S_ref_b

---------------------------------------------------------------------------
(* String primitives *)

\* `value: string | undefined`: the absent value
Undefined == <<"#undefined">>

\* s.startsWith(p)
StartsWith(s, p) == Len(s) >= Len(p) /\ SubSeq(s, 1, Len(p)) = p

\* s.includes(p)
Includes(s, p) == \E i \in 1..(Len(s) - Len(p) + 1) : SubSeq(s, i, i + Len(p) - 1) = p

\* s.slice(a, b) with 0-based half-open bounds, 0 <= a; b is clamped to the
\* length
Slice(s, a, b) == SubSeq(s, a + 1, IF b > Len(s) THEN Len(s) ELSE b)

\* s.toLowerCase() on the letters A to Z
UpperCase == <<"A", "B", "C", "D", "E", "F", "G", "H", "I", "J", "K", "L", "M",
               "N", "O", "P", "Q", "R", "S", "T", "U", "V", "W", "X", "Y", "Z">>
LowerCase == <<"a", "b", "c", "d", "e", "f", "g", "h", "i", "j", "k", "l", "m",
               "n", "o", "p", "q", "r", "s", "t", "u", "v", "w", "x", "y", "z">>
ToLowerCase(s) ==
    [i \in 1..Len(s) |->
        IF \E k \in 1..Len(UpperCase) : UpperCase[k] = s[i]
        THEN LowerCase[CHOOSE k \in 1..Len(UpperCase) : UpperCase[k] = s[i]]
        ELSE s[i]]

\* '  '.repeat(depth)
RECURSIVE Indent(_)
Indent(depth) == IF depth <= 0 THEN <<>> ELSE <<" ", " ">> \o Indent(depth - 1)

\* the characters \s matches that a string of this module can hold: space,
\* tab, line feed, carriage return, form feed, vertical tab, no-break space,
\* ogham space mark and byte order mark
WhiteSpace == {" ", "\t", "\n", "\r", "\f", "", " ", " ", "﻿"}

\* the characters /[\s,]/ matches
IsSeparator(c) == c \in WhiteSpace \cup {","}

\* value.split(/[\s,]+/): the pieces between maximal runs of separators
RECURSIVE SplitFrom(_, _, _, _)
SplitFrom(s, i, cur, inSep) ==
    IF i > Len(s) THEN <<cur>>
    ELSE IF IsSeparator(s[i])
         THEN IF inSep THEN SplitFrom(s, i + 1, cur, TRUE)
              ELSE <<cur>> \o SplitFrom(s, i + 1, <<>>, TRUE)
         ELSE SplitFrom(s, i + 1, Append(cur, s[i]), FALSE)

extractKeyframeNames(value) == SplitFrom(value, 1, <<>>, FALSE)

SeqToSet(s) == {s[i] : i \in 1..Len(s)}

\* the sequence without its element at index i (1-based)
RemoveAt(s, i) == SubSeq(s, 1, i - 1) \o SubSeq(s, i + 1, Len(s))

\* array.splice(idx, 1) where idx is 0-based or -1: a negative index counts
\* from the end, so splice(-1, 1) removes the last element
Splice1(s, idx) ==
    IF Len(s) = 0 THEN s
    ELSE IF idx < 0 THEN RemoveAt(s, Len(s)) ELSE RemoveAt(s, idx + 1)

---------------------------------------------------------------------------
(* Node model *)

\* ids are pairs <<tag, n>>: input nodes and their copies are <<"n", k>>
Id(n) == <<"n", n>>
NoId == <<"none", 0>>

styleRule(selector, nodes) ==
    [kind |-> "rule", selector |-> selector, nodes |-> nodes,
     id |-> NoId, oid |-> NoId, offs |-> {}]

atRule(name, params, nodes) ==
    [kind |-> "at-rule", name |-> name, params |-> params, nodes |-> nodes,
     id |-> NoId, oid |-> NoId, offs |-> {}]

decl(property, value, important) ==
    [kind |-> "declaration", property |-> property, value |-> value,
     important |-> important, id |-> NoId, oid |-> NoId, offs |-> {}]

comment(value) ==
    [kind |-> "comment", value |-> value, id |-> NoId, oid |-> NoId, offs |-> {}]

context(ctx, nodes) ==
    [kind |-> "context", context |-> ctx, nodes |-> nodes,
     id |-> NoId, oid |-> NoId, offs |-> {}]

atRoot(nodes) ==
    [kind |-> "at-root", nodes |-> nodes, id |-> NoId, oid |-> NoId, offs |-> {}]

\* 'nodes' in node
HasNodes(node) == node.kind \in {"rule", "at-rule", "context", "at-root"}

\* the fields of a node that may carry an Offsets record
OffsetFields(node) ==
    CASE node.kind = "rule" -> {"selector", "body"}
      [] node.kind = "at-rule" -> {"name", "params", "body"}
      [] node.kind = "declaration" -> {"property", "value"}
      [] node.kind = "comment" -> {"value"}
      [] OTHER -> {"body"}

\* { ...node.context, ...context }: the outer values over the inner ones
OuterOverInner(outer, inner) ==
    [k \in (DOMAIN outer) \cup (DOMAIN inner) |->
        IF k \in DOMAIN outer THEN outer[k] ELSE inner[k]]

\* { ...context, ...node.context }
MergeContext(outer, inner) ==
    [k \in (DOMAIN outer) \cup (DOMAIN inner) |->
        IF k \in DOMAIN inner THEN inner[k] ELSE outer[k]]

\* context.key is truthy: the value is a boolean or a string, and is falsy
\* when it is false or the empty string.  The two kinds of value cannot be
\* compared with one another, so the test reads the printed form.
Truthy(ctx, key) ==
    key \in DOMAIN ctx /\ ToString(ctx[key]) \notin {"FALSE", "<<>>", "\"\""}

EmptyContext == [k \in {} |-> TRUE]
ThemeContext == [k \in {"theme"} |-> TRUE]
ReferenceContext == [k \in {"reference"} |-> TRUE]
\* a context whose flag is a string
NamedThemeContext == [k \in {"theme"} |-> <<"y", "e", "s">>]

\* number of nodes of a list of trees, at all depths
RECURSIVE Size(_)
Size(nodes) ==
    IF nodes = <<>> THEN 0
    ELSE 1 + (IF HasNodes(Head(nodes)) THEN Size(Head(nodes).nodes) ELSE 0)
           + Size(Tail(nodes))

\* the nodes of a list of trees in document order (pre-order)
RECURSIVE Flat(_)
Flat(nodes) ==
    IF nodes = <<>> THEN <<>>
    ELSE <<Head(nodes)>>
         \o (IF HasNodes(Head(nodes)) THEN Flat(Head(nodes).nodes) ELSE <<>>)
         \o Flat(Tail(nodes))

\* number the nodes of a list of trees in document order, from `from' + 1;
\* `tracked' says which fields get an Offsets record (as the parser would)
RECURSIVE Number(_, _, _)
Number(nodes, from, tracked) ==
    IF nodes = <<>> THEN <<>>
    ELSE LET n == Head(nodes)
             me == [n EXCEPT !.id = Id(from + 1), !.oid = Id(from + 1),
                             !.offs = OffsetFields(n) \cap tracked]
             first == IF HasNodes(n)
                      THEN [me EXCEPT !.nodes = Number(n.nodes, from + 1, tracked)]
                      ELSE me
         IN <<first>> \o Number(Tail(nodes), from + Size(<<n>>), tracked)

AllFields == {"selector", "body", "name", "params", "property", "value"}

---------------------------------------------------------------------------
(* Collaborators of the optimizer: the theme and the value parser.  Their  *)
(* code is outside ast.ts; they are modelled from their documented         *)
(* interfaces.                                                              *)

\* theme.getOptions(variable) & (ThemeOptions.STATIC | ThemeOptions.USED)
getOptions(variable, used) == variable \in used

\* theme.prefixKey(key) of a theme without prefix
prefixKey(key) == key

\* theme.resolveValue(null, [name]): the literal of a theme colour, or <<>>
resolveValue(name) == IF name = S_var_c THEN S_red ELSE <<>>

\* a node of a parsed value: a word, a separator, or a function and its
\* arguments (words and separators have no nodes)
ValueNode(kind, value, nodes) == [kind |-> kind, value |-> value, nodes |-> nodes]

\* the characters that separate the words of a value
IsValueSeparator(c) == c \in {":", ",", "=", ">", "<", "\n", "/", " ", "\t"}

\* the index after the run of separator characters that starts at i
SeparatorEnd(s, i) ==
    CHOOSE j \in i..(Len(s) + 1) :
        /\ j = Len(s) + 1 \/ ~IsValueSeparator(s[j])
        /\ \A k \in i..(j - 1) : IsValueSeparator(s[k])

\* the index after the run of characters of a word that starts at i
WordEnd(s, i) ==
    LET plain(c) == ~IsValueSeparator(c) /\ c \notin {"(", ")", "\\", "\"", "'"}
    IN CHOOSE j \in i..(Len(s) + 1) :
          /\ j = Len(s) + 1 \/ ~plain(s[j])
          /\ \A k \in i..(j - 1) : plain(s[k])

\* the index of the quote q that closes the string opened at start, looking
\* from j on (a backslash skips the character after it); start itself when
\* the string is not closed, so that only the opening quote is taken
RECURSIVE QuoteEnd(_, _, _, _)
QuoteEnd(s, j, q, start) ==
    IF j > Len(s) THEN start
    ELSE IF s[j] = "\\" THEN QuoteEnd(s, j + 2, q, start)
    ELSE IF s[j] = q THEN j
    ELSE QuoteEnd(s, j + 1, q, start)

\* ValueParser.parse from the state p on: i is the index of the next
\* character, buffer the word read so far, stack the lists being filled (the
\* top-level list first, then one frame for each function that is open, with
\* its name).  A run of separator characters is one separator node; a `('
\* opens a function named by the buffer; a `)' ends the innermost open
\* function, the buffer being its last word, and with no function open it
\* drops the buffer; a backslash takes the next character with it (the text
\* `undefined' at the end of the value).  At the end of the value the open
\* functions stay as they are and the buffer is a word of the top-level list.
\* (The next state is named by a bound variable, CHOOSE r \in {e(q) : q \in
\* {step}}, so that it is computed once however often e uses it.)
RECURSIVE ParseFrom(_, _)
ParseFrom(s, p) ==
    LET c == s[p.i]
        top == Len(p.stack)
        word == IF p.buffer = <<>> THEN <<>> ELSE <<ValueNode("word", p.buffer, <<>>)>>
        push(frames, nodes) == [frames EXCEPT ![Len(frames)].nodes = @ \o nodes]
        \* the innermost function, closed with the given last nodes, in its parent
        close(last) ==
            push(SubSeq(p.stack, 1, top - 1),
                 <<ValueNode("function", p.stack[top].value, p.stack[top].nodes \o last)>>)
        step ==
            IF c = "\\"
            THEN [p EXCEPT !.i = @ + 2,
                           !.buffer = @ \o <<c>> \o (IF p.i < Len(s) THEN <<s[p.i + 1]>>
                                                     ELSE <<"u", "n", "d", "e", "f", "i", "n", "e", "d">>)]
            ELSE IF IsValueSeparator(c)
            THEN LET end == SeparatorEnd(s, p.i)
                 IN [i |-> end, buffer |-> <<>>,
                     stack |-> push(p.stack, word \o <<ValueNode("separator",
                                                          SubSeq(s, p.i, end - 1), <<>>)>>)]
            ELSE IF c \in {"\"", "'"}
            THEN LET end == QuoteEnd(s, p.i + 1, c, p.i)
                 IN [p EXCEPT !.i = end + 1, !.buffer = @ \o SubSeq(s, p.i, end)]
            ELSE IF c = "("
            THEN [i |-> p.i + 1, buffer |-> <<>>,
                  stack |-> Append(p.stack, [value |-> p.buffer, nodes |-> <<>>])]
            ELSE IF c = ")"
            THEN [i |-> p.i + 1, buffer |-> <<>>,
                  stack |-> IF top > 1 THEN close(word) ELSE p.stack]
            ELSE LET end == WordEnd(s, p.i)
                 IN [p EXCEPT !.i = end, !.buffer = @ \o SubSeq(s, p.i, end - 1)]
    IN IF p.i <= Len(s) THEN CHOOSE r \in {ParseFrom(s, q) : q \in {step}} : TRUE
       ELSE IF top > 1
       THEN CHOOSE r \in {ParseFrom(s, q) : q \in {[p EXCEPT !.stack = close(<<>>)]}} : TRUE
       ELSE p.stack[1].nodes \o word

\* ValueParser.toCss: the text of a list of value nodes
RECURSIVE ValueToCss(_)
ValueToCss(nodes) ==
    IF nodes = <<>> THEN <<>>
    ELSE LET n == Head(nodes)
         IN (IF n.kind = "function" THEN n.value \o <<"(">> \o ValueToCss(n.nodes) \o <<")">>
             ELSE n.value)
            \o ValueToCss(Tail(nodes))

\* input.replaceAll('\r\n', '\n'), the first statement of ValueParser.parse
RECURSIVE ReplaceCRLF(_)
ReplaceCRLF(s) ==
    LET at == {i \in 1..(Len(s) - 1) : s[i] = "\r" /\ s[i + 1] = "\n"}
    IN IF at = {} THEN s
       ELSE CHOOSE r \in {SubSeq(s, 1, i - 1) \o ReplaceCRLF(SubSeq(s, i + 1, Len(s))) :
                          i \in {CHOOSE i \in at : \A j \in at : i <= j}} : TRUE

\* ValueParser.parse(input)
ValueParse(input) ==
    CHOOSE r \in {ParseFrom(s, [i |-> 1, buffer |-> <<>>,
                                stack |-> <<[value |-> <<>>, nodes |-> <<>>]>>]) :
                  s \in {ReplaceCRLF(input)}} : TRUE

\* the walks of extractUsedVariables: the words that start with `--' below
\* a var() function, in document order
RECURSIVE UsedVariablesIn(_, _)
UsedVariablesIn(nodes, inVar) ==
    IF nodes = <<>> THEN <<>>
    ELSE LET n == Head(nodes)
         IN (IF n.kind = "function"
             THEN UsedVariablesIn(n.nodes, inVar \/ n.value = <<"v", "a", "r">>)
             ELSE IF n.kind = "word" /\ inVar /\ StartsWith(n.value, <<"-", "-">>)
             THEN <<n.value>>
             ELSE <<>>)
            \o UsedVariablesIn(Tail(nodes), inVar)

\* extractUsedVariables(value): the names read by the var(...) calls of the
\* parsed value
extractUsedVariables(value) ==
    CHOOSE r \in {UsedVariablesIn(parsed, FALSE) : parsed \in {ValueParse(value)}} : TRUE

\* designSystem.trackUsedVariables(value): marks the variables of value USED
trackUsedVariables(value, used) == used \cup SeqToSet(extractUsedVariables(value))

\* lines 393-412: the walk of the arguments of a color-mix call.  A word
\* currentcolor, in any case, and a var() of a name the theme does not
\* resolve are recorded; a var() of a name it resolves is replaced by the
\* word of its value, which the walk then visits.
RECURSIVE InnerWalk(_, _)
InnerWalk(nodes, acc) ==
    IF nodes = <<>> THEN [nodes |-> <<>>, acc |-> acc]
    ELSE LET n == Head(nodes)
             descend(acc1) ==
                CHOOSE r \in UNION {
                    {[nodes |-> <<[n EXCEPT !.nodes = inner.nodes]>> \o rest.nodes,
                      acc |-> rest.acc] : rest \in {InnerWalk(Tail(nodes), inner.acc)}} :
                    inner \in {InnerWalk(n.nodes, acc1)}} : TRUE
         IN IF n.kind = "word" /\ ToLowerCase(n.value) = S_currentcolor
            THEN CHOOSE r \in {[nodes |-> <<n>> \o rest.nodes, acc |-> rest.acc] :
                               rest \in {InnerWalk(Tail(nodes),
                                            [acc EXCEPT !.containsCurrentcolor = TRUE,
                                                        !.requiresPolyfill = TRUE])}} : TRUE
            ELSE IF n.kind = "function" /\ n.value = <<"v", "a", "r">>
                    /\ n.nodes # <<>> /\ n.nodes[1].kind = "word"
            THEN LET inlinedColor == resolveValue(n.nodes[1].value)
                 IN IF inlinedColor = <<>>
                    THEN descend([acc EXCEPT !.containsUnresolvableVars = TRUE,
                                             !.requiresPolyfill = TRUE])
                    ELSE InnerWalk(<<ValueNode("word", inlinedColor, <<>>)>> \o Tail(nodes),
                                   [acc EXCEPT !.requiresPolyfill = TRUE])
            ELSE descend(acc)

\* lines 423-436: the colorspace of a call is its third node
downgradeColorspace(call) ==
    IF call.nodes[3].kind = "word" /\ call.nodes[3].value \in {S_oklab, S_oklch, S_lab, S_lch}
    THEN [call EXCEPT !.nodes[3].value = S_srgb]
    ELSE call

\* lines 388-437: the walk of the value.  Every color-mix call has its
\* arguments walked; with currentcolor or an unresolvable variable the call
\* is replaced by the one node that follows its first comma separator, and
\* the walk visits that node; else, once a polyfill is required, its
\* colorspace is downgraded, which throws a TypeError when the call has
\* fewer than three nodes (colorspace.kind of undefined).
RECURSIVE OuterWalk(_, _)
OuterWalk(nodes, requiresPolyfill) ==
    IF nodes = <<>> THEN [nodes |-> <<>>, requiresPolyfill |-> requiresPolyfill, thrown |-> FALSE]
    ELSE LET n == Head(nodes)
             descend(m, required) ==
                CHOOSE r \in UNION {
                    {[nodes |-> <<[m EXCEPT !.nodes = inner.nodes]>> \o rest.nodes,
                      requiresPolyfill |-> rest.requiresPolyfill, thrown |-> rest.thrown] :
                     rest \in {IF inner.thrown
                               THEN [nodes |-> Tail(nodes),
                                     requiresPolyfill |-> inner.requiresPolyfill,
                                     thrown |-> TRUE]
                               ELSE OuterWalk(Tail(nodes), inner.requiresPolyfill)}} :
                    inner \in {OuterWalk(m.nodes, required)}} : TRUE
             colorMix(inner) ==
                LET args == inner.nodes
                    call == [n EXCEPT !.nodes = args]
                    required == inner.acc.requiresPolyfill
                    commas == {i \in 1..Len(args) :
                                  args[i].kind = "separator" /\ Includes(args[i].value, <<",">>)}
                    separatorIndex == CHOOSE i \in commas : \A j \in commas : i <= j
                IN IF inner.acc.containsUnresolvableVars \/ inner.acc.containsCurrentcolor
                   THEN IF commas = {} \/ separatorIndex = Len(args)
                        THEN descend(call, required)
                        ELSE OuterWalk(<<args[separatorIndex + 1]>> \o Tail(nodes), required)
                   ELSE IF required
                   THEN IF Len(args) < 3
                        THEN [nodes |-> <<call>> \o Tail(nodes), requiresPolyfill |-> required,
                              thrown |-> TRUE]
                        ELSE descend(downgradeColorspace(call), required)
                   ELSE descend(call, required)
         IN IF ~(n.kind = "function" /\ n.value = S_color_mix) THEN descend(n, requiresPolyfill)
            ELSE CHOOSE r \in {colorMix(inner) :
                               inner \in {InnerWalk(n.nodes,
                                             [containsUnresolvableVars |-> FALSE,
                                              containsCurrentcolor |-> FALSE,
                                              requiresPolyfill |-> requiresPolyfill])}} : TRUE

\* lines 385-439: ValueParser.parse(node.value), the walk, and
\* ValueParser.toCss(ast): requiresPolyfill, the value of the fallback
\* declaration, and whether the walk threw
ColorMixFallback(value) ==
    CHOOSE p \in UNION {
        {[requiresPolyfill |-> r.requiresPolyfill, value |-> ValueToCss(r.nodes),
          thrown |-> r.thrown] : r \in {OuterWalk(parsed, FALSE)}} :
        parsed \in {ValueParse(value)}} : TRUE

---------------------------------------------------------------------------
(* optimizeAst: the insertion-ordered maps and sets it keeps *)

\* map.get(key) of a DefaultMap<key, Set>: the set's members in insertion order
MapGet(m, key) ==
    IF \E i \in 1..Len(m) : m[i].k = key
    THEN m[CHOOSE i \in 1..Len(m) : m[i].k = key].v
    ELSE <<>>

\* map.get(key).add(val)
MapAdd(m, key, val) ==
    IF \E i \in 1..Len(m) : m[i].k = key
    THEN LET i == CHOOSE j \in 1..Len(m) : m[j].k = key
         IN IF val \in SeqToSet(m[i].v) THEN m
            ELSE [m EXCEPT ![i] = [k |-> key, v |-> Append(m[i].v, val)]]
    ELSE Append(m, [k |-> key, v |-> <<val>>])

RECURSIVE MapAddAll(_, _, _)
MapAddAll(m, keys, val) ==
    IF keys = <<>> THEN m ELSE MapAddAll(MapAdd(m, Head(keys), val), Tail(keys), val)

\* the identity of a child list: the top-level list, the nodes of the copy of
\* a rule, or the temporary list a child is transformed into
RootId == <<"root", 0>>
RootList == <<"root", "", 0>>
NodesOf(id) == <<"nodes", id[1], id[2]>>
TmpList(id) == <<"tmp", id[1], id[2]>>
OwnerOf(list) == <<list[2], list[3]>>

\* the locals of optimizeAst before the first transform call.  `detached'
\* holds the nodes that the removal of unused theme variables has taken out
\* of newAst: their child lists are still the keys of cssThemeVariables and
\* are read and spliced like any other.
OptInit(flags, used) ==
    [newAst |-> <<>>, atRoots |-> <<>>, seenAtProperties |-> {},
     cssThemeVariables |-> <<>>, keyframes |-> <<>>, usedKeyframeNames |-> {},
     propertyFallbacksRoot |-> <<>>, propertyFallbacksUniversal |-> <<>>,
     variableDependencies |-> <<>>, tmp |-> <<>>, cleared |-> {},
     detached |-> <<>>,
     used |-> used, polyfills |-> flags, thrown |-> FALSE, atThrow |-> <<>>]

\* { ...node, nodes: [] } filled with the transformed children
CopyWith(node, nodes) == [node EXCEPT !.nodes = nodes]

\* the fallback declaration { ...node, value } of the color-mix polyfill
FallbackOf(node, value) == [node EXCEPT !.id = <<"fallback", node.id[2]>>, !.value = value]

\* rule('@supports (color: color-mix(in lab, red, red))', [node])
ColorMixQuery(node) ==
    [atRule(S_at_supports, S_color_mix_query, <<node>>)
        EXCEPT !.id = <<"supports", node.id[2]>>, !.oid = <<"supports", node.id[2]>>]

\* the initial-value and inherits declarations of an @property block
RECURSIVE PropertyInfo(_, _)
PropertyInfo(nodes, acc) ==
    IF nodes = <<>> THEN acc
    ELSE LET prop == Head(nodes)
         IN PropertyInfo(Tail(nodes),
              IF prop.kind # "declaration" THEN acc
              ELSE IF prop.property = S_initial_value
                   THEN [acc EXCEPT !.initialValue = prop.value]
              ELSE IF prop.property = S_inherits
                   THEN [acc EXCEPT !.inherits = (prop.value = S_true)]
              ELSE acc)

\* decl(property, initialValue ?? 'initial') of the @property fallbacks
FallbackDecl(node, info) ==
    [decl(node.params, IF info.initialValue = Undefined THEN S_initial ELSE info.initialValue, FALSE)
        EXCEPT !.id = <<"propfallback", node.id[2]>>, !.oid = <<"propfallback", node.id[2]>>]

KeptWhenEmpty == {S_at_layer, S_at_charset, S_at_custom_media, S_at_namespace, S_at_import}

---------------------------------------------------------------------------
(* optimizeAst.transform.  A call transform(node, parent, context, depth)  *)
(* pushes nodes to `parent' and updates the locals of optimizeAst: the     *)
(* model returns the pushed nodes as `out' and the locals as `st'.         *)
(* `parent' is the identity of the destination list.                       *)

\* a TypeError leaves transform: the locals of optimizeAst are kept as they are
\* at the first throw, and nothing that the model computes after it counts
Throw(st) ==
    IF st.thrown THEN st
    ELSE [st EXCEPT !.thrown = TRUE, !.atThrow = <<[st EXCEPT !.thrown = TRUE]>>]

\* Declaration (lines 343-453)
transformDeclaration(node, parent, ctx, st) ==
    IF node.property = S_tw_sort \/ node.value = Undefined
    THEN [out |-> <<>>, st |-> st]
    ELSE
    LET themeVar == Truthy(ctx, "theme") /\ StartsWith(node.property, <<"-", "-">>)
    IN  IF themeVar /\ node.value = S_initial
        THEN [out |-> <<>>, st |-> [st EXCEPT !.cleared = @ \cup {node.id}]]
        ELSE
        LET st1 == IF themeVar /\ ~Truthy(ctx, "keyframes")
                   THEN [st EXCEPT !.cssThemeVariables = MapAdd(@, parent, node)]
                   ELSE st
            st2 == IF ~Includes(node.value, S_var_open) THEN st1
                   ELSE IF themeVar
                        THEN [st1 EXCEPT !.variableDependencies =
                                 MapAddAll(@, extractUsedVariables(node.value), node.property)]
                        ELSE [st1 EXCEPT !.used = trackUsedVariables(node.value, @)]
            st3 == IF node.property = S_animation
                   THEN [st2 EXCEPT !.usedKeyframeNames =
                            @ \cup SeqToSet(extractKeyframeNames(node.value))]
                   ELSE st2
            polyfill == IF "ColorMix" \in st.polyfills /\ Includes(node.value, S_color_mix_open)
                        THEN ColorMixFallback(node.value)
                        ELSE [requiresPolyfill |-> FALSE, value |-> node.value, thrown |-> FALSE]
        IN  IF polyfill.thrown
            THEN [out |-> <<>>, st |-> Throw(st3)]
            ELSE IF polyfill.requiresPolyfill
            THEN [out |-> <<FallbackOf(node, polyfill.value), ColorMixQuery(node)>>, st |-> st3]
            ELSE [out |-> <<node>>, st |-> st3]

\* AtRule `@property`: the fallback collected for Firefox (lines 489-508)
collectPropertyFallback(node, st) ==
    IF "AtProperty" \notin st.polyfills THEN st
    ELSE LET info == PropertyInfo(node.nodes, [initialValue |-> Undefined, inherits |-> FALSE])
         IN IF info.inherits
            THEN [st EXCEPT !.propertyFallbacksRoot = Append(@, FallbackDecl(node, info))]
            ELSE [st EXCEPT !.propertyFallbacksUniversal = Append(@, FallbackDecl(node, info))]

\* the at-rules that are kept: non-empty ones and those meaningful when empty
keepAtRule(copy) == Len(copy.nodes) > 0 \/ copy.name \in KeptWhenEmpty

\* the depth the children of an at-root are transformed at (line 551)
atRootDepth == 0

\* a transform of at-root that gives the children an empty context
resetContext(ctx) == EmptyContext

\* the context the children of an at-root are transformed with (line 551)
atRootContext(ctx) == ctx

\* a transform that flattens no rule
flattenNone(node) == FALSE

\* the selector of the rules that are flattened (line 458)
isFlattened(node) == node.selector = S_amp

\* the @property at-rules that are deduplicated (line 481)
isAtProperty(node, depth) == node.name = S_at_property /\ depth = 0

\* a transform that does not remember the @property rules it has seen
markNone(st, node) == st

\* seenAtProperties.add(node.params) (line 510)
markSeen(st, node) == [st EXCEPT !.seenAtProperties = @ \cup {node.params}]

\* a transform of at-root that hoists the children as they are
hoistAsIs(nodes, ctx, st) == [st EXCEPT !.atRoots = @ \o nodes]

RECURSIVE transform(_, _, _, _, _)
RECURSIVE transformInto(_, _, _, _, _)
RECURSIVE transformEach(_, _, _, _)
RECURSIVE transformAtRoot(_, _, _)

\* for (let child of node.nodes) transform(child, parent, context, depth)
transformInto(nodes, parent, ctx, depth, st) ==
    IF nodes = <<>> THEN [out |-> <<>>, st |-> st]
    ELSE LET r == transform(Head(nodes), parent, ctx, depth, st)
             rest == transformInto(Tail(nodes), parent, ctx, depth, r.st)
         IN [out |-> r.out \o rest.out, st |-> rest.st]

\* for (let child of node.nodes) { let nodes = []; transform(child, nodes,
\* context, depth); parent.push(...nodes) } (lines 459-465)
transformEach(nodes, ctx, depth, st) ==
    IF nodes = <<>> THEN [out |-> <<>>, st |-> st]
    ELSE LET r == transform(Head(nodes), TmpList(Head(nodes).id), ctx, depth, st)
             st1 == [r.st EXCEPT !.tmp =
                        Append(@, [k |-> TmpList(Head(nodes).id),
                                   v |-> [i \in 1..Len(r.out) |-> r.out[i].id]])]
             rest == transformEach(Tail(nodes), ctx, depth, st1)
         IN [out |-> r.out \o rest.out, st |-> rest.st]

\* AtRoot (lines 547-556): every child goes through a list of its own, whose
\* nodes are pushed to atRoots
transformAtRoot(nodes, ctx, st) ==
    IF nodes = <<>> THEN st
    ELSE LET r == transform(Head(nodes), TmpList(Head(nodes).id), atRootContext(ctx), atRootDepth, st)
             st1 == [r.st EXCEPT !.tmp =
                        Append(@, [k |-> TmpList(Head(nodes).id),
                                   v |-> [i \in 1..Len(r.out) |-> r.out[i].id]]),
                                 !.atRoots = @ \o r.out]
         IN transformAtRoot(Tail(nodes), ctx, st1)

transform(node, parent, ctx, depth, st) ==
    CASE node.kind = "declaration" -> transformDeclaration(node, parent, ctx, st)
      [] node.kind = "rule" ->
            IF isFlattened(node)
            THEN transformEach(node.nodes, ctx, depth + 1, st)
            ELSE LET r == transformInto(node.nodes, NodesOf(node.id), ctx, depth + 1, st)
                 IN [out |-> IF Len(r.out) > 0 THEN <<CopyWith(node, r.out)>> ELSE <<>>,
                     st |-> r.st]
      [] node.kind = "at-rule" /\ isAtProperty(node, depth) ->
            IF node.params \in st.seenAtProperties
            THEN [out |-> <<>>, st |-> st]
            ELSE LET st1 == markSeen(collectPropertyFallback(node, st), node)
                     r == transformInto(node.nodes, NodesOf(node.id), ctx, depth + 1, st1)
                 IN [out |-> <<CopyWith(node, r.out)>>, st |-> r.st]
      [] node.kind = "at-rule" /\ ~isAtProperty(node, depth) ->
            LET ctx1 == IF node.name = S_at_keyframes
                        THEN MergeContext(ctx, [k \in {"keyframes"} |-> TRUE])
                        ELSE ctx
                r == transformInto(node.nodes, NodesOf(node.id), ctx1, depth + 1, st)
                copy == CopyWith(node, r.out)
                st1 == IF node.name = S_at_keyframes /\ Truthy(ctx1, "theme")
                       THEN [r.st EXCEPT !.keyframes = Append(@, [id |-> copy.id, params |-> copy.params])]
                       ELSE r.st
            IN [out |-> IF keepAtRule(copy) THEN <<copy>> ELSE <<>>, st |-> st1]
      [] node.kind = "at-root" ->
            [out |-> <<>>, st |-> transformAtRoot(node.nodes, ctx, st)]
      [] node.kind = "context" ->
            IF Truthy(node.context, "reference")
            THEN [out |-> <<>>, st |-> st]
            ELSE transformInto(node.nodes, parent, MergeContext(ctx, node.context), depth, st)
      [] node.kind = "comment" -> [out |-> <<node>>, st |-> st]

\* lines 581-584: for (let node of ast) transform(node, newAst, {}, 0).  When
\* a call threw, what is left is the locals as they were at the throw.
transformAst(tree, flags, used) ==
    LET r == transformInto(tree, RootList, EmptyContext, 0, OptInit(flags, used))
    IN IF r.st.thrown THEN r.st.atThrow[1] ELSE [r.st EXCEPT !.newAst = r.out]

---------------------------------------------------------------------------
(* optimizeAst: the passes after the transform *)

Ids(nodes) == [i \in 1..Len(nodes) |-> nodes[i].id]

\* array.indexOf(x) over identities: 0-based, -1 when absent
IndexOfId(ids, id) ==
    IF \E i \in 1..Len(ids) : ids[i] = id
    THEN (CHOOSE i \in 1..Len(ids) : ids[i] = id /\ \A j \in 1..(i - 1) : ids[j] # id) - 1
    ELSE -1

\* the container of forest F that owns the child list `list', if any
Owners(F, list) ==
    {i \in 1..Len(Flat(F)) : Flat(F)[i].id = OwnerOf(list) /\ HasNodes(Flat(F)[i])}

InForest(F, list) == list[1] = "nodes" /\ Owners(F, list) # {}

ListIn(F, list) == Flat(F)[CHOOSE i \in Owners(F, list) : TRUE].nodes

\* list.splice(idx, 1) on the child list `list' of forest F
RECURSIVE SpliceIn(_, _, _)
SpliceIn(F, list, idx) ==
    [i \in 1..Len(F) |->
        IF ~HasNodes(F[i]) THEN F[i]
        ELSE IF F[i].id = OwnerOf(list)
             THEN [F[i] EXCEPT !.nodes = Splice1(@, idx)]
             ELSE [F[i] EXCEPT !.nodes = SpliceIn(@, list, idx)]]

\* the identities held by the list `list', wherever it lives
ListIds(o, list) ==
    IF list = RootList THEN Ids(o.newAst)
    ELSE IF list[1] = "tmp" THEN MapGet(o.tmp, list)
    ELSE IF InForest(o.newAst, list) THEN Ids(ListIn(o.newAst, list))
    ELSE IF InForest(o.atRoots, list) THEN Ids(ListIn(o.atRoots, list))
    ELSE IF InForest(o.detached, list) THEN Ids(ListIn(o.detached, list))
    ELSE <<>>

\* list.splice(idx, 1), wherever the list lives
SpliceList(o, list, idx) ==
    IF list = RootList THEN [o EXCEPT !.newAst = Splice1(@, idx)]
    ELSE IF list[1] = "tmp"
         THEN [o EXCEPT !.tmp = [i \in 1..Len(@) |->
                    IF @[i].k = list THEN [k |-> list, v |-> Splice1(@[i].v, idx)] ELSE @[i]]]
    ELSE IF InForest(o.newAst, list) THEN [o EXCEPT !.newAst = SpliceIn(@, list, idx)]
    ELSE IF InForest(o.atRoots, list) THEN [o EXCEPT !.atRoots = SpliceIn(@, list, idx)]
    ELSE IF InForest(o.detached, list) THEN [o EXCEPT !.detached = SpliceIn(@, list, idx)]
    ELSE o

\* findNode(ast, node => node.kind === 'rule' && node.nodes === parent): the
\* path (ancestors, then the node) of the first match in document order,
\* empty when there is none
RECURSIVE findNode(_, _)
findNode(F, list) ==
    IF F = <<>> THEN <<>>
    ELSE LET node == Head(F)
             me == [id |-> node.id, kind |-> node.kind]
         IN IF node.kind = "rule" /\ list = NodesOf(node.id)
            THEN <<me>>
            ELSE LET below == IF HasNodes(node) THEN findNode(node.nodes, list) ELSE <<>>
                 IN IF below # <<>> THEN <<me>> \o below
                    ELSE findNode(Tail(F), list)

\* lines 625-637: remove path's last node from the one before it, and go on.
\* The removed node keeps its children: it leaves newAst as it is.
RECURSIVE removeEmptyParents(_, _)
removeEmptyParents(o, path) ==
    IF Len(path) < 2 THEN o
    ELSE LET nodeToRemove == path[Len(path)]
             removeFrom == path[Len(path) - 1]
             list == IF removeFrom.id = RootId THEN RootList ELSE NodesOf(removeFrom.id)
             idx == IndexOfId(ListIds(o, list), nodeToRemove.id)
             removed == (IF list = RootList THEN o.newAst ELSE ListIn(o.newAst, list))[idx + 1]
         IN IF removeFrom.kind \notin {"at-root", "at-rule"} THEN o
            ELSE IF idx = -1 THEN o
            ELSE removeEmptyParents(
                    [SpliceList(o, list, idx) EXCEPT !.detached = Append(@, removed)],
                    SubSeq(path, 1, Len(path) - 1))

\* isVariableUsed (lines 942-968); alreadySeenVariables is shared by the
\* whole search, so the result carries it along
RECURSIVE isVariableUsedRec(_, _, _, _)
RECURSIVE anyDependencyUsed(_, _, _, _)
isVariableUsedRec(variable, used, deps, seen) ==
    IF variable \in seen THEN [used |-> TRUE, seen |-> seen]
    ELSE IF getOptions(variable, used) THEN [used |-> TRUE, seen |-> seen \cup {variable}]
    ELSE anyDependencyUsed(MapGet(deps, variable), used, deps, seen \cup {variable})

anyDependencyUsed(dependencies, used, deps, seen) ==
    IF dependencies = <<>> THEN [used |-> FALSE, seen |-> seen]
    ELSE LET r == isVariableUsedRec(Head(dependencies), used, deps, seen)
         IN IF r.used THEN r ELSE anyDependencyUsed(Tail(dependencies), used, deps, r.seen)

isVariableUsed(variable, used, deps) == isVariableUsedRec(variable, used, deps, {}).used

\* lines 588-641: the declarations registered under one parent list
RECURSIVE removeUnusedIn(_, _, _)
removeUnusedIn(o, parent, declarations) ==
    IF declarations = <<>> THEN o
    ELSE LET declaration == Head(declarations)
         IN IF isVariableUsed(declaration.property, o.used, o.variableDependencies)
            THEN removeUnusedIn(
                    IF StartsWith(declaration.property, prefixKey(S_animate_prefix))
                    THEN [o EXCEPT !.usedKeyframeNames =
                             @ \cup SeqToSet(extractKeyframeNames(declaration.value))]
                    ELSE o,
                    parent, Tail(declarations))
            ELSE LET idx == IndexOfId(ListIds(o, parent), declaration.id)
                     o1 == SpliceList(o, parent, idx)
                 IN IF Len(ListIds(o1, parent)) = 0
                    THEN LET path == findNode(o1.newAst, parent)
                         IN IF path = <<>> THEN o1
                            ELSE removeEmptyParents(o1,
                                    <<[id |-> RootId, kind |-> "at-root"]>> \o path)
                    ELSE removeUnusedIn(o1, parent, Tail(declarations))

\* lines 586-642: Remove unused theme variables
RECURSIVE removeUnusedFrom(_, _)
removeUnusedFrom(o, i) ==
    IF i > Len(o.cssThemeVariables) THEN o
    ELSE removeUnusedFrom(
            removeUnusedIn(o, o.cssThemeVariables[i].k, o.cssThemeVariables[i].v), i + 1)

removeUnusedThemeVariables(o) == removeUnusedFrom(o, 1)

\* lines 644-650: Remove unused keyframes
RECURSIVE removeUnusedKeyframesFrom(_, _)
removeUnusedKeyframesFrom(o, i) ==
    IF i > Len(o.keyframes) THEN o
    ELSE LET keyframe == o.keyframes[i]
         IN removeUnusedKeyframesFrom(
                IF keyframe.params \notin o.usedKeyframeNames
                THEN [o EXCEPT !.atRoots = Splice1(@, IndexOfId(Ids(@), keyframe.id))]
                ELSE o,
                i + 1)

removeUnusedKeyframes(o) == removeUnusedKeyframesFrom(o, 1)

\* the hoisted nodes put before the others
atRootsFirst(o) == [o EXCEPT !.newAst = o.atRoots \o @]

\* line 652: newAst = newAst.concat(atRoots)
concatAtRoots(o) == [o EXCEPT !.newAst = @ \o o.atRoots]

Synth(node, tag) == [node EXCEPT !.id = <<tag, 0>>, !.oid = <<tag, 0>>]

\* the index of the first node whatever it is: nodes.findIndex(() => true)
firstNodeIndex(nodes) == IF Len(nodes) > 0 THEN 0 ELSE -1

\* lines 670-683: the first node that is no comment, @charset or @import
firstValidNodeIndex(nodes) ==
    LET valid(node) == ~(node.kind = "comment"
                         \/ (node.kind = "at-rule" /\ node.name \in {S_at_charset, S_at_import}))
    IN IF \E i \in 1..Len(nodes) : valid(nodes[i])
       THEN (CHOOSE i \in 1..Len(nodes) : valid(nodes[i]) /\ \A j \in 1..(i - 1) : ~valid(nodes[j])) - 1
       ELSE -1

\* lines 654-703: Fallbacks
fallbacks(o) ==
    IF "AtProperty" \notin o.polyfills THEN o
    ELSE LET fallbackAst ==
                (IF Len(o.propertyFallbacksRoot) > 0
                 THEN <<Synth(styleRule(S_root_host, o.propertyFallbacksRoot), "fallback-root")>>
                 ELSE <<>>)
                \o (IF Len(o.propertyFallbacksUniversal) > 0
                    THEN <<Synth(styleRule(S_universal, o.propertyFallbacksUniversal), "fallback-universal")>>
                    ELSE <<>>)
             at == firstValidNodeIndex(o.newAst)
             where == IF at < 0 THEN Len(o.newAst) ELSE at
             marker == Synth(atRule(S_at_layer, S_properties, <<>>), "marker")
             wrapped == Synth(atRule(S_at_layer, S_properties,
                                <<Synth(atRule(S_at_supports, S_supports_query, fallbackAst), "supports-query")>>),
                              "layer")
         IN IF Len(fallbackAst) = 0 THEN o
            ELSE [o EXCEPT !.newAst =
                    SubSeq(@, 1, where) \o <<marker>> \o SubSeq(@, where + 1, Len(@)) \o <<wrapped>>]

\* optimizeAst(ast, designSystem, polyfills); a call that throws gives the
\* mark #TypeError instead of a tree
optimizeAst(tree, flags, used) ==
    LET transformed == transformAst(tree, flags, used)
    IN IF transformed.thrown THEN <<"#TypeError">>
       ELSE fallbacks(concatAtRoots(removeUnusedKeyframes(
                removeUnusedThemeVariables(transformed)))).newAst

---------------------------------------------------------------------------
(* toCss.  The serializer state is the text so far, the cursor `pos', the  *)
(* dst of the Offsets records, the log of the assignments to them, and     *)
(* whether a TypeError was thrown, after which nothing more is done.       *)

\* the identity of the Offsets record of a field of a node
OffsetsKey(node, fld) == <<node.oid[1], node.oid[2], fld>>

\* text that is printed and always counted: css += text; pos += text.length
Emit(s, text, tracking) ==
    IF s.thrown THEN s ELSE
    [s EXCEPT !.css = @ \o text, !.pos = IF tracking THEN @ + Len(text) ELSE @]

\* the text of a field: if (node.offsets.field) node.offsets.field.dst =
\* span(text), and nothing else (lines 730-732, 761-763, 814-816, ...)
EmitField(s, node, fld, text, tracking) ==
    IF s.thrown THEN s ELSE
    IF tracking /\ fld \in node.offs
    THEN [s EXCEPT !.css = @ \o text,
                   !.pos = @ + Len(text),
                   !.dst = [k \in (DOMAIN @) \cup {OffsetsKey(node, fld)} |->
                               IF k = OffsetsKey(node, fld) THEN <<s.pos, s.pos + Len(text)>> ELSE @[k]],
                   !.writes = Append(@, [key |-> OffsetsKey(node, fld), node |-> node.id,
                                         span |-> <<s.pos, s.pos + Len(text)>>])]
    ELSE [s EXCEPT !.css = @ \o text]

\* the closing brace: if (node.offsets.body?.dst) node.offsets.body.dst[1] =
\* span(`}`)[1] (lines 787-790, 876-879)
EmitClose(s, node, tracking) ==
    IF s.thrown THEN s ELSE
    IF tracking /\ "body" \in node.offs /\ OffsetsKey(node, "body") \in DOMAIN s.dst
    THEN [s EXCEPT !.css = @ \o <<"}">>,
                   !.pos = @ + 1,
                   !.dst = [@ EXCEPT ![OffsetsKey(node, "body")] = <<@[1], s.pos + 1>>],
                   !.writes = Append(@, [key |-> OffsetsKey(node, "body"), node |-> node.id,
                                         span |-> <<s.dst[OffsetsKey(node, "body")][1], s.pos + 1>>])]
    ELSE [s EXCEPT !.css = @ \o <<"}">>]

RECURSIVE stringify(_, _, _, _)
RECURSIVE stringifyAll(_, _, _, _)

\* for (let child of node.nodes) css += stringify(child, depth + 1); the
\* test on s1.pos makes each node's text be computed before the next one
stringifyAll(nodes, depth, s, tracking) ==
    IF nodes = <<>> THEN s
    ELSE LET s1 == stringify(Head(nodes), depth, s, tracking)
         IN IF s1.pos < 0 \/ s1.thrown THEN s1
            ELSE stringifyAll(Tail(nodes), depth, s1, tracking)

stringify(node, depth, s, tracking) ==
    LET indent == Indent(depth)
    IN CASE node.kind = "declaration" ->
              LET s1 == Emit(s, indent, tracking)
                  s2 == EmitField(s1, node, "property", node.property, tracking)
                  s3 == Emit(s2, <<":", " ">>, tracking)
                  \* span(node.value!) reads the length of an absent value
                  \* (lines 711-712 and 734-736): TypeError
                  s4 == IF tracking /\ "value" \in node.offs /\ node.value = Undefined
                        THEN [s3 EXCEPT !.thrown = TRUE]
                        ELSE EmitField(s3, node, "value",
                                       IF node.value = Undefined THEN S_undefined ELSE node.value,
                                       tracking)
                  s5 == IF node.important THEN Emit(s4, S_important, tracking) ELSE s4
              IN Emit(s5, <<";", "\n">>, tracking)
         [] node.kind = "rule" ->
              LET s1 == Emit(s, indent, tracking)
                  s2 == EmitField(s1, node, "selector", node.selector, tracking)
                  s3 == Emit(s2, <<" ">>, tracking)
                  s4 == EmitField(s3, node, "body", <<"{">>, tracking)
                  s5 == Emit(s4, <<"\n">>, tracking)
                  s6 == stringifyAll(node.nodes, depth + 1, s5, tracking)
                  s7 == Emit(s6, indent, tracking)
                  s8 == EmitClose(s7, node, tracking)
              IN Emit(s8, <<"\n">>, tracking)
         [] node.kind = "at-rule" /\ Len(node.nodes) = 0 ->
              LET s1 == Emit(s, indent, tracking)
                  s2 == EmitField(s1, node, "name", node.name, tracking)
                  s3 == Emit(s2, <<" ">>, tracking)
                  s4 == EmitField(s3, node, "params", node.params, tracking)
              IN Emit(s4, <<";", "\n">>, tracking)
         [] node.kind = "at-rule" /\ Len(node.nodes) > 0 ->
              LET s1 == Emit(s, indent, tracking)
                  s2 == EmitField(s1, node, "name", node.name, tracking)
                  s3 == IF node.params # <<>>
                        THEN EmitField(Emit(s2, <<" ">>, tracking), node, "params", node.params, tracking)
                        ELSE s2
                  s4 == Emit(s3, <<" ">>, tracking)
                  s5 == EmitField(s4, node, "body", <<"{">>, tracking)
                  s6 == Emit(s5, <<"\n">>, tracking)
                  s7 == stringifyAll(node.nodes, depth + 1, s6, tracking)
                  s8 == Emit(s7, indent, tracking)
                  s9 == EmitClose(s8, node, tracking)
              IN Emit(s9, <<"\n">>, tracking)
         [] node.kind = "comment" ->
              LET s1 == Emit(s, indent, tracking)
                  s2 == EmitField(s1, node, "value", <<"/", "*">> \o node.value \o <<"*", "/">>, tracking)
              IN Emit(s2, <<"\n">>, tracking)
         [] node.kind \in {"context", "at-root"} -> s

SerializerInit ==
    [css |-> <<>>, pos |-> 0, dst |-> [k \in {} |-> <<0, 0>>], writes |-> <<>>, thrown |-> FALSE]

\* toCss(ast, track): a call that throws returns no text
toCss(nodes, tracking) ==
    LET s == stringifyAll(nodes, 0, SerializerInit, tracking)
    IN IF s.thrown THEN [s EXCEPT !.css = <<>>] ELSE s

---------------------------------------------------------------------------
(* Input trees *)

\* upper bound on the number of nodes of an input tree
MaxNodes == 4

RECURSIVE Trees(_, _, _)
RECURSIVE Forests(_, _, _)

\* the trees of exactly n nodes over the given leaves and (empty) containers
Trees(n, leaves, containers) ==
    IF n = 1 THEN leaves \cup containers
    ELSE {[c EXCEPT !.nodes = f] : c \in containers, f \in Forests(n - 1, leaves, containers)}

\* the lists of trees of exactly n nodes in all
Forests(n, leaves, containers) ==
    IF n = 0 THEN {<<>>}
    ELSE UNION {{<<t>> \o f : t \in Trees(k, leaves, containers),
                             f \in Forests(n - k, leaves, containers)} : k \in 1..n}

ForestsUpTo(n, leaves, containers) == UNION {Forests(k, leaves, containers) : k \in 0..n}

---------------------------------------------------------------------------
(* The pipeline: optimizeAst pass by pass, then toCss *)

WalkerIdle ==
    /\ wtree = <<>>
    /\ wfn = "none"
    /\ stack = <<>>
    /\ ret = "none"
    /\ visits = <<>>
    /\ events = <<>>
    /\ fresh = 0

SerializerIdle ==
    /\ css = <<>>
    /\ pos = 0
    /\ dst = SerializerInit.dst
    /\ writes = <<>>

InitPipeline(trees, flagSets, usedSets, trackings, fieldSets) ==
    /\ pc = "start"
    /\ \E raw \in trees, tracked \in fieldSets : ast = Number(raw, 0, tracked)
    /\ polyfills \in flagSets
    /\ themeUsed \in usedSets
    /\ track \in trackings
    /\ opt = OptInit(polyfills, themeUsed)
    /\ prev = opt
    /\ SerializerIdle
    /\ WalkerIdle

walkerVars == <<wtree, wfn, stack, ret, visits, events, fresh>>
inputVars == <<ast, polyfills, themeUsed, track>>
serializerVars == <<css, pos, dst, writes>>

\* lines 581-584
Transform ==
    /\ pc = "start"
    /\ opt' = transformAst(ast, polyfills, themeUsed)
    /\ prev' = opt
    /\ pc' = IF opt'.thrown THEN "threw" ELSE "transformed"
    /\ UNCHANGED <<inputVars, serializerVars, walkerVars>>

\* lines 586-642
RemoveUnusedThemeVariables ==
    /\ pc = "transformed"
    /\ opt' = removeUnusedThemeVariables(opt)
    /\ prev' = opt
    /\ pc' = "variables"
    /\ UNCHANGED <<inputVars, serializerVars, walkerVars>>

\* lines 644-650
RemoveUnusedKeyframes ==
    /\ pc = "variables"
    /\ opt' = removeUnusedKeyframes(opt)
    /\ prev' = opt
    /\ pc' = "keyframes"
    /\ UNCHANGED <<inputVars, serializerVars, walkerVars>>

\* lines 652-705
Fallbacks ==
    /\ pc = "keyframes"
    /\ opt' = fallbacks(concatAtRoots(opt))
    /\ prev' = opt
    /\ pc' = "optimized"
    /\ UNCHANGED <<inputVars, serializerVars, walkerVars>>

\* toCss(optimizeAst(...), track)
ToCss ==
    /\ pc = "optimized"
    /\ LET s == toCss(opt.newAst, track)
       IN /\ css' = s.css
          /\ pos' = s.pos
          /\ dst' = s.dst
          /\ writes' = s.writes
          /\ pc' = IF s.thrown THEN "threw" ELSE "printed"
    /\ UNCHANGED <<inputVars, opt, prev, walkerVars>>

Next == Transform \/ RemoveUnusedThemeVariables \/ RemoveUnusedKeyframes \/ Fallbacks \/ ToCss

AllFlagSets == SUBSET {"AtProperty", "ColorMix"}

\* upper bound on the number of nodes of a tree of the general inputs
MaxGeneralNodes == 3

\* the general inputs: every kind of node, every polyfill flag set
GeneralLeaves ==
    {decl(S_color, S_red, FALSE), decl(S_color, S_mix, FALSE), decl(S_color, S_mix_current, FALSE),
     decl(S_color, S_mix_short, FALSE), decl(S_color, S_mix_unclosed, FALSE),
     decl(S_color, S_mix_crlf, FALSE)}
GeneralContainers ==
    {styleRule(S_sel_a, <<>>), styleRule(S_amp, <<>>), atRoot(<<>>),
     atRule(S_at_property, S_var_x, <<>>),
     context(ReferenceContext, <<>>), context(ThemeContext, <<>>)}

Init == InitPipeline(ForestsUpTo(MaxGeneralNodes, GeneralLeaves, GeneralContainers),
                     AllFlagSets, {{}}, {TRUE}, {AllFields})

Spec == Init /\ [][Next]_vars

\* inputs with `&' rules in rules, at-roots and contexts
FlattenContainers ==
    {styleRule(S_sel_a, <<>>), styleRule(S_amp, <<>>), atRoot(<<>>), context(ThemeContext, <<>>)}

InitFlatten == InitPipeline(ForestsUpTo(MaxNodes, {decl(S_color, S_red, FALSE)}, FlattenContainers),
                            {{}}, {{}}, {TRUE}, {AllFields})

SpecFlatten == InitFlatten /\ [][Next]_vars

\* inputs with at-roots at any depth, no theme context and no polyfill
HoistContainers == {styleRule(S_sel_a, <<>>), styleRule(S_amp, <<>>), atRoot(<<>>)}

InitHoist == InitPipeline(ForestsUpTo(MaxNodes, {decl(S_color, S_red, FALSE)}, HoistContainers),
                          {{}}, {{}}, {TRUE}, {AllFields})

SpecHoist == InitHoist /\ [][Next]_vars

\* inputs with @property at-rules at any depth: without a theme, and inside
\* a theme context together with an unused theme variable and a @keyframes
PropertyContainers ==
    {atRule(S_at_property, S_var_x, <<>>), styleRule(S_sel_a, <<>>), atRoot(<<>>),
     context(ReferenceContext, <<>>)}
ThemedPropertyContainers ==
    {atRule(S_at_property, S_var_x, <<>>), styleRule(S_sel_a, <<>>), atRoot(<<>>),
     atRule(S_at_keyframes, S_spin, <<>>)}

InitProperty ==
    \/ InitPipeline(ForestsUpTo(MaxNodes, {decl(S_inherits, S_true, FALSE)}, PropertyContainers),
                    {{}, {"AtProperty"}}, {{}}, {TRUE}, {AllFields})
    \/ InitPipeline({<<context(ThemeContext, f)>> :
                        f \in ForestsUpTo(MaxNodes, {decl(S_var_a, S_one, FALSE)},
                                          ThemedPropertyContainers)},
                    {{}, {"AtProperty"}}, {{}}, {TRUE}, {AllFields})

SpecProperty == InitProperty /\ [][Next]_vars

\* upper bound on the number of nodes inside the theme context of an input
MaxThemeNodes == 4

\* inputs with a theme: custom properties that are plain, that read one
\* another, and that read one another in a cycle, in rules, `@layer' and `&'
\* rules, all inside one theme context
ThemeLeaves ==
    {decl(S_var_a, S_one, FALSE), decl(S_var_b, S_ref_a, FALSE),
     decl(S_var_c, S_ref_ab, FALSE), decl(S_var_a, S_ref_b, FALSE)}
ThemeContainers ==
    {styleRule(S_sel_a, <<>>), atRule(S_at_layer, S_theme_name, <<>>), styleRule(S_amp, <<>>)}
ThemeVariables == {S_var_a, S_var_b, S_var_c}

InitTheme ==
    InitPipeline({<<context(ThemeContext, f)>> :
                     f \in ForestsUpTo(MaxThemeNodes, ThemeLeaves, ThemeContainers)},
                 {{}}, {{}, {S_var_a}, {S_var_c}}, {TRUE}, {AllFields})

SpecTheme == InitTheme /\ [][Next]_vars

---------------------------------------------------------------------------
(* toCss called on its own: toCss(ast, track) *)

\* upper bound on the number of nodes of a tree that is serialized directly
MaxCssNodes == 3

CssLeaves ==
    {decl(S_color, S_red, FALSE), decl(S_color, S_red, TRUE), decl(S_color, Undefined, FALSE),
     comment(S_note)}
CssContainers == {styleRule(S_sel_a, <<>>), atRule(S_media, S_print, <<>>)}

\* any subset of the fields carries an Offsets record
InitCss ==
    /\ pc = "parsed"
    /\ \E raw \in ForestsUpTo(MaxCssNodes, CssLeaves, CssContainers), tracked \in SUBSET AllFields :
          ast = Number(raw, 0, tracked)
    /\ polyfills = {}
    /\ themeUsed = {}
    /\ track \in BOOLEAN
    /\ opt = OptInit(polyfills, themeUsed)
    /\ prev = opt
    /\ SerializerIdle
    /\ WalkerIdle

\* toCss(ast, track)
Serialize ==
    /\ pc = "parsed"
    /\ LET s == toCss(ast, track)
       IN /\ css' = s.css
          /\ pos' = s.pos
          /\ dst' = s.dst
          /\ writes' = s.writes
          /\ pc' = IF s.thrown THEN "threw" ELSE "serialized"
    /\ UNCHANGED <<inputVars, opt, prev, walkerVars>>

NextCss == Serialize

SpecCss == InitCss /\ [][NextCss]_vars


---------------------------------------------------------------------------
(* walk and walkDepth.  The tree is held as a heap, so that a child list  *)
(* is one object for every call that iterates it: the kind and context of *)
(* every node, the child list of every container (and of the root), and   *)
(* the properties an assignment at a negative index leaves on an array.   *)

WalkAction == {"Continue", "Skip", "Stop"}

EmptyHeap ==
    [kind |-> [k \in {} |-> ""], context |-> [k \in {} |-> EmptyContext],
     nodes |-> [k \in {} |-> <<>>], props |-> [k \in {} |-> NoId]]

\* the heap with the nodes of a list of trees added to it
HeapAdd(h, forest) ==
    LET all == SeqToSet(Flat(forest))
        ids == {n.id : n \in all}
        at(id) == CHOOSE n \in all : n.id = id
    IN [h EXCEPT
          !.kind = [id \in ids |-> at(id).kind] @@ @,
          !.context = [id \in ids |-> IF at(id).kind = "context" THEN at(id).context
                                      ELSE EmptyContext] @@ @,
          !.nodes = [id \in ids |-> IF HasNodes(at(id)) THEN Ids(at(id).nodes) ELSE <<>>] @@ @]

\* the heap of a list of trees, which is the root list
HeapOf(forest) ==
    [HeapAdd(EmptyHeap, forest) EXCEPT !.nodes = (RootId :> Ids(forest)) @@ @]

\* 'nodes' in node, for a node of the heap
HasNodesIn(h, id) == HasNodes([kind |-> h.kind[id]])

\* ast[i]: the element at index i, else the property of that name, else
\* undefined (NoId)
ElementAt(h, list, i) ==
    IF i >= 0 /\ i < Len(h.nodes[list]) THEN h.nodes[list][i + 1]
    ELSE IF <<list, i>> \in DOMAIN h.props THEN h.props[<<list, i>>]
    ELSE NoId

\* ast.splice(i, 1, ...items): a negative start counts from the end
SpliceItems(s, i, items) ==
    LET start == IF i < 0 THEN (IF Len(s) + i < 0 THEN 0 ELSE Len(s) + i)
                 ELSE (IF i > Len(s) THEN Len(s) ELSE i)
        deleteCount == IF start < Len(s) THEN 1 ELSE 0
    IN SubSeq(s, 1, start) \o items \o SubSeq(s, start + deleteCount + 1, Len(s))

\* ast[i] = item, i < ast.length: at a negative index the array gets a
\* property and its elements stay as they are
AssignAt(h, list, i, item) ==
    IF i >= 0
    THEN [h EXCEPT !.nodes[list][i + 1] = item]
    ELSE [h EXCEPT !.props = (<<list, i>> :> item) @@ @]

\* the element the call replaceWith(newNode) made at index i takes out of
\* the list, if any
Replaced(s, i, count) ==
    IF count = 1
    THEN (IF i >= 0 /\ i < Len(s) THEN {s[i + 1]} ELSE {})
    ELSE LET start == IF i < 0 THEN (IF Len(s) + i < 0 THEN 0 ELSE Len(s) + i) ELSE i
         IN IF start < Len(s) THEN {s[start + 1]} ELSE {}

\* what one replaceWith call did: the list before and after, the nodes
\* given, all the nodes below them, the element taken out
LogEntry(list, i, before, after, newNode) ==
    [list |-> list, index |-> i, before |-> before, after |-> after,
     inserted |-> Ids(newNode), created |-> {n.id : n \in SeqToSet(Flat(newNode))},
     removed |-> Replaced(before, i, Len(newNode))]

\* the body of replaceWith shared by walk and walkDepth (lines 213-227 and
\* 296-306)
replaceAt(h, list, i, newNode) ==
    HeapAdd(IF Len(newNode) = 0 THEN [h EXCEPT !.nodes[list] = SpliceItems(@, i, <<>>)]
            ELSE IF Len(newNode) = 1 THEN AssignAt(h, list, i, newNode[1].id)
            ELSE [h EXCEPT !.nodes[list] = SpliceItems(@, i, Ids(newNode))],
            newNode)

\* walk's replaceWith (lines 209-228): only the first call of a visit acts
walkReplaceWith(r, list, i, newNode) ==
    IF r.replacedNode THEN r
    ELSE LET h == replaceAt(r.h, list, i, newNode)
         IN [h |-> h, replacedNode |-> TRUE, replacedNodeOffset |-> Len(newNode),
             log |-> Append(r.log, LogEntry(list, i, r.h.nodes[list], h.nodes[list], newNode))]

\* the index walk goes on from after a replacement, before the loop's i++
\* (lines 235-241), when the visitor skips or stops
indexAfterSkip(i, status, replacedNodeOffset) == i + replacedNodeOffset - 1

\* the index walk goes on from after a replacement, before the loop's i++
\* (lines 235-241)
indexAfterReplacement(i, status, replacedNodeOffset) ==
    IF status = "Continue" THEN i - 1 ELSE i + replacedNodeOffset - 1

\* walkDepth's replaceWith (lines 295-310): every call acts, at the index
\* the calls before it left
walkDepthReplaceWith(r, list, newNode) ==
    LET h == replaceAt(r.h, list, r.i, newNode)
    IN [h |-> h, i |-> r.i + Len(newNode) - 1,
        log |-> Append(r.log, LogEntry(list, r.i, r.h.nodes[list], h.nodes[list], newNode))]

RECURSIVE walkCalls(_, _, _, _)
walkCalls(r, list, i, newNodes) ==
    IF newNodes = <<>> THEN r
    ELSE walkCalls(walkReplaceWith(r, list, i, Head(newNodes)), list, i, Tail(newNodes))

RECURSIVE walkDepthCalls(_, _, _)
walkDepthCalls(r, list, newNodes) ==
    IF newNodes = <<>> THEN r
    ELSE walkDepthCalls(walkDepthReplaceWith(r, list, Head(newNodes)), list, Tail(newNodes))

---------------------------------------------------------------------------
(* The visitor: at each visit it may call replaceWith, more than once, and *)
(* (for walk) returns a WalkAction.                                        *)

\* upper bound on the number of nodes a traversal's visitor inserts
MaxInserted == 2

\* upper bound on the number of visits of a traversal
MaxVisits == 6

\* the arguments a visitor gives to replaceWith: no node, one declaration,
\* two declarations, a rule with a declaration, a context node with one
Shapes == {"none", "leaf", "pair", "rule", "context"}

ShapeOf(shape) ==
    CASE shape = "none" -> <<>>
      [] shape = "leaf" -> <<decl(S_color, S_blue, FALSE)>>
      [] shape = "pair" -> <<decl(S_color, S_blue, FALSE), decl(S_color, S_blue, FALSE)>>
      [] shape = "rule" -> <<styleRule(S_sel_b, <<decl(S_color, S_blue, FALSE)>>)>>
      [] shape = "context" -> <<context(ReferenceContext, <<decl(S_color, S_blue, FALSE)>>)>>

\* the replaceWith calls of one visit, in order
CallSeqs == {<<>>} \cup {<<a>> : a \in Shapes} \cup {<<a, b>> : a \in Shapes, b \in Shapes}

\* new nodes are <<"new", k>>, numbered in the order they are made
RECURSIVE Retag(_, _)
Retag(nodes, base) ==
    [k \in 1..Len(nodes) |->
        LET n == nodes[k]
            m == [n EXCEPT !.id = <<"new", base + n.id[2]>>, !.oid = <<"new", base + n.id[2]>>]
        IN IF HasNodes(n) THEN [m EXCEPT !.nodes = Retag(n.nodes, base)] ELSE m]

NewNodes(shape, base) == Retag(Number(ShapeOf(shape), 0, {}), base)

RECURSIVE Built(_, _)
Built(calls, base) ==
    IF calls = <<>> THEN <<>>
    ELSE LET newNode == NewNodes(Head(calls), base)
         IN <<newNode>> \o Built(Tail(calls), base + Size(newNode))

RECURSIVE Cost(_)
Cost(calls) == IF calls = <<>> THEN 0 ELSE Size(ShapeOf(Head(calls))) + Cost(Tail(calls))

\* the nodes the logged calls put into the tree
CreatedBy(log) == UNION {log[k].created : k \in 1..Len(log)}

\* a call of walk or walkDepth: the list it iterates, its index, its context
\* and path arguments, and where its loop body stands
Frame(list, ctx, path) ==
    [list |-> list, i |-> 0, context |-> ctx, path |-> path, at |-> "loop"]

Top == stack[Len(stack)]
Pop == SubSeq(stack, 1, Len(stack) - 1)
Current == ElementAt(wtree, Top.list, Top.i)

\* what the visitor is called with, and what it returned
Visit(node, f, status) ==
    [node |-> node,
     parent |-> IF f.path = <<>> THEN NoId ELSE f.path[Len(f.path)],
     path |-> Append(f.path, node),
     context |-> f.context,
     status |-> status]

\* the log of a visit's calls, with the visit they belong to
Logged(log, visit, status) ==
    [k \in 1..Len(log) |->
        [list |-> log[k].list, index |-> log[k].index, before |-> log[k].before,
         after |-> log[k].after, inserted |-> log[k].inserted, created |-> log[k].created,
         removed |-> log[k].removed, visit |-> visit, status |-> status]]

\* the caller's loop goes on with the next index
Advance(frames) ==
    IF frames = <<>> THEN frames
    ELSE [frames EXCEPT ![Len(frames)].i = @ + 1, ![Len(frames)].at = "loop"]

pipelineVars == <<pc, ast, polyfills, themeUsed, track, opt, prev, css, pos, dst, writes>>

InitWalker(trees, fns) ==
    /\ pc = "walking"
    /\ \E raw \in trees : ast = Number(raw, 0, {})
    /\ polyfills = {}
    /\ themeUsed = {}
    /\ track = FALSE
    /\ opt = OptInit(polyfills, themeUsed)
    /\ prev = opt
    /\ SerializerIdle
    /\ wtree = HeapOf(ast)
    /\ wfn \in fns
    /\ stack = <<Frame(RootId, EmptyContext, <<>>)>>
    /\ ret = "running"
    /\ visits = <<>>
    /\ events = <<>>
    /\ fresh = 0

---------------------------------------------------------------------------
(* walk, one step of its loop at a time *)

\* lines 194-199: a context node is walked through
WalkContext ==
    /\ wfn = "walk" /\ ret = "running" /\ stack # <<>>
    /\ Top.i < Len(wtree.nodes[Top.list])
    /\ wtree.kind[Current] = "context"
    /\ stack' = Append(stack, Frame(Current, MergeContext(Top.context, wtree.context[Current]),
                                    Top.path))
    /\ UNCHANGED <<wtree, wfn, ret, visits, events, fresh, pipelineVars>>

\* lines 201-258: the visit of a node and what walk does with the result
WalkVisit ==
    /\ wfn = "walk" /\ ret = "running" /\ stack # <<>>
    /\ Top.i < Len(wtree.nodes[Top.list])
    /\ wtree.kind[Current] # "context"
    /\ Len(visits) < MaxVisits
    /\ \E status \in WalkAction, calls \in CallSeqs :
          /\ fresh + Cost(calls) <= MaxInserted
          /\ LET node == Current
                 r == walkCalls([h |-> wtree, replacedNode |-> FALSE, replacedNodeOffset |-> 0,
                                 log |-> <<>>],
                                Top.list, Top.i, Built(calls, fresh))
             IN /\ wtree' = r.h
                /\ visits' = Append(visits, Visit(node, Top, status))
                /\ events' = events \o Logged(r.log, Len(visits) + 1, status)
                /\ fresh' = fresh + Cardinality(CreatedBy(r.log))
                /\ IF r.replacedNode
                   THEN /\ stack' = Advance([stack EXCEPT ![Len(stack)].i =
                                        indexAfterReplacement(@, status, r.replacedNodeOffset)])
                        /\ ret' = ret
                   ELSE IF status = "Stop"
                   THEN /\ stack' = Pop
                        /\ ret' = "Stop"
                   ELSE IF status = "Skip"
                   THEN /\ stack' = Advance(stack)
                        /\ ret' = ret
                   ELSE IF HasNodesIn(wtree, node)
                   THEN /\ stack' = Append(stack, Frame(node, Top.context, Append(Top.path, node)))
                        /\ ret' = ret
                   ELSE /\ stack' = Advance(stack)
                        /\ ret' = ret
    /\ UNCHANGED <<wfn, pipelineVars>>

\* line 187: the loop ends and the call returns undefined; the caller goes
\* on with its next node (lines 198 and 250-259)
WalkReturn ==
    /\ wfn = "walk" /\ ret = "running" /\ stack # <<>>
    /\ Top.i >= Len(wtree.nodes[Top.list])
    /\ stack' = Advance(Pop)
    /\ ret' = IF Pop = <<>> THEN "undefined" ELSE ret
    /\ UNCHANGED <<wtree, wfn, visits, events, fresh, pipelineVars>>

\* lines 195-197 and 255-257: the caller of a call that returned Stop
\* returns Stop
WalkStop ==
    /\ wfn = "walk" /\ ret = "Stop" /\ stack # <<>>
    /\ stack' = Pop
    /\ UNCHANGED <<wtree, wfn, ret, visits, events, fresh, pipelineVars>>

---------------------------------------------------------------------------
(* walkDepth, one step of its loop at a time *)

\* line 278: ast[i] is undefined, and reading its kind throws
WalkDepthThrow ==
    /\ wfn = "walkDepth" /\ ret = "running" /\ stack # <<>>
    /\ Top.at = "loop"
    /\ Top.i < Len(wtree.nodes[Top.list])
    /\ Current = NoId
    /\ stack' = <<>>
    /\ ret' = "TypeError"
    /\ UNCHANGED <<wtree, wfn, visits, events, fresh, pipelineVars>>

\* lines 281-284: the children of a rule or an at-rule come first
WalkDepthChildren ==
    /\ wfn = "walkDepth" /\ ret = "running" /\ stack # <<>>
    /\ Top.at = "loop"
    /\ Top.i < Len(wtree.nodes[Top.list])
    /\ Current # NoId
    /\ wtree.kind[Current] \in {"rule", "at-rule"}
    /\ stack' = Append([stack EXCEPT ![Len(stack)].at = "visit"],
                       Frame(Current, Top.context, Append(Top.path, Current)))
    /\ UNCHANGED <<wtree, wfn, ret, visits, events, fresh, pipelineVars>>

\* lines 285-288: a context node is walked through
WalkDepthContext ==
    /\ wfn = "walkDepth" /\ ret = "running" /\ stack # <<>>
    /\ Top.at = "loop"
    /\ Top.i < Len(wtree.nodes[Top.list])
    /\ Current # NoId
    /\ wtree.kind[Current] = "context"
    /\ stack' = Append([stack EXCEPT ![Len(stack)].at = "context"],
                       Frame(Current, MergeContext(Top.context, wtree.context[Current]), Top.path))
    /\ UNCHANGED <<wtree, wfn, ret, visits, events, fresh, pipelineVars>>

\* lines 290-312: the visit of a node, after its children if it is a rule
WalkDepthVisit ==
    /\ wfn = "walkDepth" /\ ret = "running" /\ stack # <<>>
    /\ Top.i < Len(wtree.nodes[Top.list])
    /\ Current # NoId
    /\ \/ Top.at = "visit"
       \/ Top.at = "loop" /\ wtree.kind[Current] \notin {"rule", "at-rule", "context"}
    /\ Len(visits) < MaxVisits
    /\ \E calls \in CallSeqs :
          /\ fresh + Cost(calls) <= MaxInserted
          /\ LET r == walkDepthCalls([h |-> wtree, i |-> Top.i, log |-> <<>>],
                                     Top.list, Built(calls, fresh))
             IN /\ wtree' = r.h
                /\ visits' = Append(visits, Visit(Current, Top, "undefined"))
                /\ events' = events \o Logged(r.log, Len(visits) + 1, "undefined")
                /\ fresh' = fresh + Cardinality(CreatedBy(r.log))
                /\ stack' = Advance([stack EXCEPT ![Len(stack)].i = r.i])
    /\ UNCHANGED <<wfn, ret, pipelineVars>>

\* line 277: the loop ends and the call returns; the caller visits the rule
\* (line 290) or goes on with its next node (line 287)
WalkDepthReturn ==
    /\ wfn = "walkDepth" /\ ret = "running" /\ stack # <<>>
    /\ Top.at = "loop"
    /\ Top.i >= Len(wtree.nodes[Top.list])
    /\ stack' = IF Pop # <<>> /\ Pop[Len(Pop)].at = "context" THEN Advance(Pop) ELSE Pop
    /\ ret' = IF Pop = <<>> THEN "undefined" ELSE ret
    /\ UNCHANGED <<wtree, wfn, visits, events, fresh, pipelineVars>>

NextWalk == WalkContext \/ WalkVisit \/ WalkReturn \/ WalkStop

NextWalkDepth ==
    WalkDepthThrow \/ WalkDepthChildren \/ WalkDepthContext \/ WalkDepthVisit \/ WalkDepthReturn

\* upper bound on the number of nodes of a tree that is walked
MaxWalkNodes == 3

WalkLeaves == {decl(S_color, S_red, FALSE)}
WalkContainers == {styleRule(S_sel_a, <<>>), context(ThemeContext, <<>>)}

InitWalk == InitWalker(ForestsUpTo(MaxWalkNodes, WalkLeaves, WalkContainers), {"walk"})

SpecWalk == InitWalk /\ [][NextWalk]_vars

InitWalkDepth ==
    InitWalker(ForestsUpTo(MaxWalkNodes, WalkLeaves, WalkContainers), {"walkDepth"})

SpecWalkDepth == InitWalkDepth /\ [][NextWalkDepth]_vars

---------------------------------------------------------------------------
(* Reading the input and the output by identity *)

\* the pairs <<child id, parent id>> of a list of trees
RECURSIVE Edges(_, _)
Edges(nodes, parentId) ==
    UNION {{<<nodes[i].id, parentId>>}
           \cup (IF HasNodes(nodes[i]) THEN Edges(nodes[i].nodes, nodes[i].id) ELSE {})
           : i \in 1..Len(nodes)}

InputNodes == SeqToSet(Flat(ast))
InputNode(id) == CHOOSE n \in InputNodes : n.id = id
InputParent(id) == (CHOOSE e \in Edges(ast, RootId) : e[1] = id)[2]

OutputNodes == SeqToSet(Flat(opt.newAst))
OutputParent(id) == (CHOOSE e \in Edges(opt.newAst, RootId) : e[1] = id)[2]

\* the input ancestors of a node, nearest first
RECURSIVE Ancestors(_)
Ancestors(id) ==
    IF InputParent(id) = RootId THEN <<>>
    ELSE <<InputNode(InputParent(id))>> \o Ancestors(InputParent(id))

\* where the result of transforming an input node is to be found: in the
\* copy of its nearest enclosing rule or at-rule, looking through `&' rules
\* and context nodes; at the top level when an at-root or nothing encloses it
RECURSIVE Destination(_)
Destination(id) ==
    LET p == InputParent(id)
    IN IF p = RootId THEN RootId
       ELSE IF InputNode(p).kind = "at-root" THEN RootId
       ELSE IF InputNode(p).kind = "context" THEN Destination(p)
       ELSE IF InputNode(p).kind = "rule" /\ InputNode(p).selector = S_amp THEN Destination(p)
       ELSE p

\* whether an input node is hoisted: an at-root is the first enclosing node
\* that is no `&' rule and no context node
RECURSIVE Hoisted(_)
Hoisted(id) ==
    LET p == InputParent(id)
    IN IF p = RootId THEN FALSE
       ELSE IF InputNode(p).kind = "at-root" THEN TRUE
       ELSE IF InputNode(p).kind = "context" THEN Hoisted(p)
       ELSE IF InputNode(p).kind = "rule" /\ InputNode(p).selector = S_amp THEN Hoisted(p)
       ELSE FALSE

\* the child of an at-root a hoisted node came from
RECURSIVE AtRootChild(_)
AtRootChild(id) ==
    IF InputNode(InputParent(id)).kind = "at-root" THEN id ELSE AtRootChild(InputParent(id))

\* the last document-order number inside the subtree of an input node
LastIn(id) == id[2] + Size(<<InputNode(id)>>) - 1

\* the ids of every child list of a list of trees are in document order
RECURSIVE InDocumentOrder(_)
InDocumentOrder(nodes) ==
    /\ \A i \in 1..Len(nodes), j \in 1..Len(nodes) : i < j => nodes[i].id[2] <= nodes[j].id[2]
    /\ \A i \in 1..Len(nodes) : HasNodes(nodes[i]) => InDocumentOrder(nodes[i].nodes)

Optimized == pc \in {"optimized", "printed"}

HasThemeContext(tree) ==
    \E n \in SeqToSet(Flat(tree)) : n.kind = "context" /\ Truthy(n.context, "theme")

---------------------------------------------------------------------------
(* C1 *)

\* C1: the tree optimizeAst returns holds no context and no at-root node at
\* any depth, whatever the input tree and the polyfill flags, so toCss never
\* takes its `return ""' branch on it.
C1_NoContextNoAtRoot ==
    Optimized => \A n \in OutputNodes : n.kind \notin {"context", "at-root"}

\* an input with a printed context node and an at-root inside a rule, and a
\* polyfill that added nodes, has been optimized
C1_Witness ==
    /\ pc = "optimized"
    /\ polyfills # {}
    /\ \E n \in InputNodes : n.kind = "context" /\ ~Truthy(n.context, "reference") /\ Len(n.nodes) > 0
    /\ \E n \in InputNodes : n.kind = "at-root" /\ Len(n.nodes) > 0 /\ InputParent(n.id) # RootId
    /\ \E n \in OutputNodes : n.id[1] # "n"

---------------------------------------------------------------------------
(* C5 *)

IsAmpRule(n) == n.kind = "rule" /\ n.selector = S_amp

\* the results of transforming the children of `&' rules: the output nodes
\* that stem from a child of a `&' rule and are not the declaration wrapped
\* by the color-mix @supports rule
AmpResults ==
    {n \in OutputNodes :
        /\ \E m \in InputNodes : m.id[2] = n.id[2] /\ InputParent(m.id) # RootId
                                 /\ IsAmpRule(InputNode(InputParent(m.id)))
        /\ OutputParent(n.id)[1] # "supports"}

\* the `&' rule an output node stems from, and its place in the output
AmpParent(n) == InputParent(<<"n", n.id[2]>>)
OutputPosition(id) == CHOOSE i \in 1..Len(Flat(opt.newAst)) : Flat(opt.newAst)[i].id = id

ExampleAmp == Number(<<styleRule(S_amp, <<decl(S_color, S_red, FALSE)>>)>>, 0, AllFields)

\* C5: no rule with selector `&' is in the output of optimizeAst at any
\* depth; what the children of such a rule are transformed to sits directly
\* in the list the rule itself would have gone to, at the rule's position
\* and in the original order (every list the transform fills is in document
\* order, and so are the results of one `&' rule in the output); and
\* [Rule('&', [Decl('color','red')])] gives [Decl('color','red')], printed
\* as 'color: red;\n'.
C5_AmpFlattened ==
    /\ Optimized =>
          /\ \A n \in OutputNodes : ~IsAmpRule(n)
          /\ \A n \in AmpResults : OutputParent(n.id) = Destination(<<"n", n.id[2]>>)
          /\ InDocumentOrder(prev.newAst)
          /\ \A i \in 1..Len(prev.atRoots) : InDocumentOrder(<<prev.atRoots[i]>>)
          /\ \A n \in AmpResults, m \in AmpResults :
                (AmpParent(n) = AmpParent(m) /\ n.id[2] < m.id[2])
                    => OutputPosition(n.id) < OutputPosition(m.id)
          /\ ast = ExampleAmp => opt.newAst = ExampleAmp[1].nodes
    /\ (pc = "printed" /\ ast = ExampleAmp) =>
          css = S_color \o <<":", " ">> \o S_red \o <<";", "\n">>

\* a `&' rule nested in a rule kept two children, which are in the output
C5_Witness ==
    /\ pc = "printed"
    /\ \E r \in InputNodes :
          /\ IsAmpRule(r) /\ Len(r.nodes) = 2
          /\ InputParent(r.id) # RootId /\ InputNode(InputParent(r.id)).kind = "rule"
          /\ \A i \in 1..2 : \E n \in AmpResults : n.id = r.nodes[i].id

\* the end-to-end example has been printed
C5_WitnessExample == pc = "printed" /\ ast = ExampleAmp /\ Len(css) = 12


---------------------------------------------------------------------------
(* C6 *)

\* the top-level nodes of the output that were hoisted: newAst.concat(atRoots)
HoistedPart == SubSeq(opt.newAst, Len(opt.newAst) - Len(opt.atRoots) + 1, Len(opt.newAst))
MainPart == SubSeq(opt.newAst, 1, Len(opt.newAst) - Len(opt.atRoots))

\* the at-root an input node is hoisted by: the nearest enclosing one
RECURSIVE SourceAtRoot(_)
SourceAtRoot(id) ==
    IF InputNode(InputParent(id)).kind = "at-root" THEN InputParent(id)
    ELSE SourceAtRoot(InputParent(id))

\* the at-root child a finishes being transformed before the at-root child b
FinishesBefore(a, b) ==
    \/ LastIn(a) < LastIn(b)
    \/ LastIn(a) = LastIn(b) /\ a[2] > b[2]

C6_Applies == Optimized /\ polyfills = {} /\ ~HasThemeContext(ast)

\* what holds of the order without the statement on nested at-roots: the
\* top-level content that is not hoisted keeps its document order, and all
\* hoisted content comes after it
C6_MainOrder ==
    /\ \A i \in 1..Len(MainPart) : ~Hoisted(MainPart[i].id)
    /\ \A i \in 1..Len(HoistedPart) : Hoisted(HoistedPart[i].id)
    /\ \A i \in 1..Len(MainPart), j \in 1..Len(MainPart) :
          i < j => MainPart[i].id[2] < MainPart[j].id[2]


---------------------------------------------------------------------------
(* C7 *)

IsProperty(n) == n.kind = "at-rule" /\ n.name = S_at_property

\* the @property at-rules of the input with the given parameter text
InputProperties(params) == {n \in InputNodes : IsProperty(n) /\ n.params = params}
OutputProperties(params) == {n \in OutputNodes : IsProperty(n) /\ n.params = params}

DuplicatedParams == {n.params : n \in {m \in InputNodes : IsProperty(m) /\ Cardinality(InputProperties(m.params)) >= 2}}

FirstOf(nodes) == CHOOSE n \in nodes : \A m \in nodes : n.id[2] <= m.id[2]

\* the depth transform is called with for an input node
RECURSIVE TransformDepth(_)
TransformDepth(id) ==
    LET p == InputParent(id)
    IN IF p = RootId THEN 0
       ELSE IF InputNode(p).kind = "at-root" THEN 0
       ELSE IF InputNode(p).kind = "context" THEN TransformDepth(p)
       ELSE TransformDepth(p) + 1

\* the node is at depth 0, outside reference imports and other @property rules
AtDepthZero(n) ==
    /\ TransformDepth(n.id) = 0
    /\ \A i \in 1..Len(Ancestors(n.id)) :
          LET a == Ancestors(n.id)[i]
          IN /\ ~(a.kind = "context" /\ Truthy(a.context, "reference"))
             /\ ~IsProperty(a)

\* C7 as stated: of two or more @property at-rules with the same parameter
\* text, exactly one is in the output, the first in document order,
\* wherever they sit in the tree.
C7_Original ==
    Optimized =>
        \A params \in DuplicatedParams :
            /\ Cardinality(OutputProperties(params)) = 1
            /\ \A n \in OutputProperties(params) : n.id = FirstOf(InputProperties(params)).id

\* the @property at-rules with the given parameter text that the transform
\* has pushed, in the tree or among the hoisted nodes
TransformedProperties(params) ==
    {n \in SeqToSet(Flat(opt.newAst)) \cup SeqToSet(Flat(opt.atRoots)) :
        IsProperty(n) /\ n.params = params}

\* C7 (amended): of two or more @property at-rules with the same parameter
\* text that all sit at depth 0 (under no rule and no at-rule, or directly
\* under an at-root, looking through context nodes), outside reference
\* imports and outside other @property rules, the transform keeps exactly
\* one, the first in document order; the output holds no other, and holds
\* that one whenever the input has no theme context.  (Under a theme context
\* the passes that remove unused theme variables and unused keyframes can
\* remove the kept one too.)
C7_DedupAtDepthZero ==
    \A params \in DuplicatedParams :
        (\A n \in InputProperties(params) : AtDepthZero(n)) =>
            /\ pc = "transformed" =>
                  /\ Cardinality(TransformedProperties(params)) = 1
                  /\ \A n \in TransformedProperties(params) :
                        n.id = FirstOf(InputProperties(params)).id
            /\ Optimized =>
                  /\ \A n \in OutputProperties(params) : n.id = FirstOf(InputProperties(params)).id
                  /\ ~HasThemeContext(ast) => Cardinality(OutputProperties(params)) = 1

\* three duplicates at depth 0, one of them under an at-root inside a rule
C7_Witness ==
    /\ Optimized
    /\ \E params \in DuplicatedParams :
          /\ Cardinality(InputProperties(params)) >= 3
          /\ \A n \in InputProperties(params) : AtDepthZero(n)
          /\ \E n \in InputProperties(params) : InputParent(n.id) # RootId
          /\ Cardinality(OutputProperties(params)) = 1

\* Under a theme context the kept @property rule is removed as well: by the
\* ascent above an emptied rule when it is in the tree, and by
\* atRoots.splice(-1, 1) when it is hoisted.  Both states are reachable.
C7_RemovedByAscent ==
    /\ Optimized
    /\ \E params \in DuplicatedParams :
          /\ \A n \in InputProperties(params) : AtDepthZero(n)
          /\ OutputProperties(params) = {}
          /\ \E n \in SeqToSet(Flat(opt.detached)) :
                n.id = FirstOf(InputProperties(params)).id

C7_RemovedBySplice ==
    /\ Optimized
    /\ \E params \in DuplicatedParams :
          /\ \A n \in InputProperties(params) : AtDepthZero(n)
          /\ OutputProperties(params) = {}
          /\ InputNode(InputParent(FirstOf(InputProperties(params)).id)).kind = "at-root"

---------------------------------------------------------------------------
(* C2, C3 *)

\* the theme custom properties of the input
InTheme(id) == \E k \in 1..Len(Ancestors(id)) :
    Ancestors(id)[k].kind = "context" /\ Truthy(Ancestors(id)[k].context, "theme")

ThemeDeclarations ==
    {n \in InputNodes : n.kind = "declaration" /\ StartsWith(n.property, <<"-", "-">>) /\ InTheme(n.id)}

\* the variables whose value reads variable v (the recorded dependency edges)
DependentsOf(v) == SeqToSet(MapGet(opt.variableDependencies, v))

DependentsOfAll(vs) == vs \cup UNION {DependentsOf(v) : v \in vs}

\* v and the variables that depend on it, directly or transitively
RECURSIVE Closure(_, _)
Closure(vs, n) == IF n = 0 THEN vs ELSE Closure(DependentsOfAll(vs), n - 1)

DependOn(v) == Closure({v}, Cardinality(ThemeVariables))

OnCycle(v) == \E w \in DependentsOf(v) : v \in DependOn(w)

\* a variable is live when it is STATIC or USED or on a cycle, or when a
\* variable that depends on it is
LiveVariable(v) == \E w \in DependOn(v) : getOptions(w, opt.used) \/ OnCycle(w)

OutputIds == {n.id : n \in OutputNodes}

\* C2: a theme custom property that is not STATIC or USED and that no live
\* variable depends on, directly or transitively, is nowhere in the output
\* of optimizeAst.
C2_DeadEliminated ==
    Optimized =>
        \A n \in ThemeDeclarations : ~LiveVariable(n.property) => n.id \notin OutputIds

\* C3: a theme custom property that is STATIC or USED, that a STATIC or USED
\* variable transitively depends on, or that lies on a dependency cycle, is
\* never removed.
C3_LiveKept ==
    Optimized =>
        \A n \in ThemeDeclarations : LiveVariable(n.property) => n.id \in OutputIds

---------------------------------------------------------------------------
(* C4 *)

\* the literal text a field of a node is printed as
FieldText(node, fld) ==
    CASE fld = "property" -> node.property
      [] fld = "value" -> IF node.kind = "comment"
                          THEN <<"/", "*">> \o node.value \o <<"*", "/">>
                          ELSE node.value
      [] fld = "selector" -> node.selector
      [] fld = "name" -> node.name
      [] fld = "params" -> node.params
      [] fld = "body" -> <<"{", "\n">>
                         \o stringifyAll(node.nodes, Len(Ancestors(node.id)) + 1, SerializerInit, FALSE).css
                         \o Indent(Len(Ancestors(node.id))) \o <<"}">>

\* the Offsets records of the input whose dst has been populated
Populated == {<<n, fld>> \in InputNodes \X AllFields : fld \in n.offs /\ OffsetsKey(n, fld) \in DOMAIN dst}

\* C4: after toCss(tree, true) returned text T, T.slice(dst[0], dst[1]) is the
\* literal text of the field for every Offsets record whose dst was
\* populated, whether or not the other nodes and fields carry Offsets.
C4_SpanCorrect ==
    (pc = "serialized" /\ track) =>
        \A e \in Populated :
            Slice(css, dst[OffsetsKey(e[1], e[2])][1], dst[OffsetsKey(e[1], e[2])][2])
                = FieldText(e[1], e[2])

---------------------------------------------------------------------------
(* C8, C9, C10 *)

Visited == {visits[m].node : m \in 1..Len(visits)}

\* the visits made after visit k
VisitedAfter(k) == {visits[m].node : m \in (k + 1)..Len(visits)}

\* the traversal is over
Returned == stack = <<>>

\* C8: once the visitor of walk has returned Stop no further visit is made,
\* at any nesting level, and every enclosing walk call returns Stop.
C8_StopAborts ==
    wfn = "walk" =>
        \A k \in 1..Len(visits) :
            visits[k].status = "Stop" => (k = Len(visits) /\ ret = "Stop")

\* the nodes below a node of the heap
RECURSIVE Below(_, _)
Below(h, id) ==
    UNION {{h.nodes[id][k]} \cup Below(h, h.nodes[id][k]) : k \in 1..Len(h.nodes[id])}

\* the first node a walk of the list of nodes visits: context nodes are
\* looked through; NoId when it visits none
RECURSIVE FirstVisited(_, _)
FirstVisited(h, ids) ==
    IF ids = <<>> THEN NoId
    ELSE IF h.kind[Head(ids)] # "context" THEN Head(ids)
    ELSE LET inner == FirstVisited(h, h.nodes[Head(ids)])
         IN IF inner # NoId THEN inner ELSE FirstVisited(h, Tail(ids))

\* the replacements walk made when the visitor returned `status'
ReplacementsWith(status) == {k \in 1..Len(events) : events[k].status = status}

\* the list holds the replacement in place of the visited node
InPlace(e) ==
    /\ e.removed = {visits[e.visit].node}
    /\ e.after = SubSeq(e.before, 1, e.index) \o e.inserted
                 \o SubSeq(e.before, e.index + 2, Len(e.before))

\* the sibling that followed the replaced node, NoId when there is none
FollowingSibling(e) ==
    IF e.index + 2 <= Len(e.before) THEN e.before[e.index + 2] ELSE NoId

\* C9 as stated: the list holds the replacement in place of the visited
\* node and the children of the replaced node are not visited; on Continue
\* the next visit is of the first replacement node (of the following
\* sibling when the replacement is empty) and every replacement node is
\* visited by a traversal that is not stopped; on Skip no replacement node
\* and no descendant of one is visited and the next visit is of the
\* following sibling.
C9_Original ==
    wfn = "walk" =>
        /\ \A k \in 1..Len(events) :
              /\ InPlace(events[k])
              /\ VisitedAfter(events[k].visit) \cap Below(wtree, visits[events[k].visit].node) = {}
        /\ \A k \in ReplacementsWith("Continue") :
              LET e == events[k]
                  first == IF e.inserted # <<>> THEN e.inserted[1] ELSE FollowingSibling(e)
              IN /\ (Len(visits) > e.visit /\ first # NoId) => visits[e.visit + 1].node = first
                 /\ (Returned /\ ret = "undefined") => SeqToSet(e.inserted) \subseteq Visited
        /\ \A k \in ReplacementsWith("Skip") :
              LET e == events[k]
              IN /\ e.created \cap Visited = {}
                 /\ (Len(visits) > e.visit /\ FollowingSibling(e) # NoId)
                       => visits[e.visit + 1].node = FollowingSibling(e)

\* what a replacement does to the list and to the visits, whatever comes
\* next
C9_Effect ==
    wfn = "walk" =>
        /\ \A k \in 1..Len(events) :
              /\ InPlace(events[k])
              /\ VisitedAfter(events[k].visit) \cap Below(wtree, visits[events[k].visit].node) = {}
        /\ \A k \in ReplacementsWith("Continue") :
              (Returned /\ ret = "undefined") =>
                  {id \in SeqToSet(events[k].inserted) : wtree.kind[id] # "context"} \subseteq Visited
        /\ \A k \in ReplacementsWith("Skip") : events[k].created \cap Visited = {}

\* the visit a step makes follows a replacement made by the visit before it:
\* it is the first visit of a walk of the list from the first replacement
\* node on (Continue) or from the following sibling on (Skip), if such a
\* walk visits anything
C9_NextVisit ==
    (wfn = "walk" /\ Len(visits') = Len(visits) + 1 /\ Len(events) > 0) =>
        LET e == events[Len(events)]
            from == IF e.status = "Continue" THEN e.index ELSE e.index + Len(e.inserted)
            list == wtree.nodes[e.list]
            first == FirstVisited(wtree, SubSeq(list, from + 1, Len(list)))
        IN (e.visit = Len(visits) /\ e.status \in {"Continue", "Skip"} /\ first # NoId)
              => visits'[Len(visits')].node = first

\* C9 (amended): when the visitor of walk calls replaceWith, the list holds
\* the replacement in place of the visited node before the traversal goes
\* on and the children of the replaced node are not visited.  On Continue
\* the next visit is the first one a walk of the replacement and the
\* siblings after it makes, context nodes being walked through, and every
\* replacement node that is no context node is visited by a traversal that
\* is not stopped; on Skip no replacement node and no descendant of one is
\* visited, and the next visit is the first one a walk of the siblings after
\* the replaced node makes.
C9_Replacement == []C9_Effect /\ [][C9_NextVisit]_vars

\* a walk returned after a visit replaced its node and continued, the
\* replacement was visited, and a visit replaced its node and skipped
C9_Witness ==
    /\ wfn = "walk" /\ Returned /\ ret = "undefined"
    /\ \E k \in ReplacementsWith("Continue") :
          /\ events[k].inserted # <<>>
          /\ SeqToSet(events[k].inserted) \subseteq Visited
    /\ \E k \in ReplacementsWith("Skip") : events[k].inserted # <<>>

\* C10: with walk and with walkDepth, no node is visited after replaceWith
\* took it out of its list, and a node given to replaceWith is visited at
\* most once.
C10_RemovedInserted ==
    /\ \A k \in 1..Len(events) : VisitedAfter(events[k].visit) \cap events[k].removed = {}
    /\ \A k \in 1..Len(events) : \A id \in events[k].created :
          Cardinality({m \in 1..Len(visits) : visits[m].node = id}) <= 1

---------------------------------------------------------------------------
(* C11 *)

\* upper bound on the number of nodes of an input with sort markers
MaxSortNodes == 3

\* inputs with sort markers, declarations without a value, theme variables
\* set to `initial', and @property rules, one of them named like the marker
SortLeaves ==
    {decl(S_tw_sort, S_red, FALSE), decl(S_color, Undefined, FALSE),
     decl(S_color, S_red, FALSE), decl(S_var_a, S_initial, FALSE),
     decl(S_initial_value, Undefined, FALSE)}
SortContainers ==
    {styleRule(S_sel_a, <<>>), atRoot(<<>>), context(ThemeContext, <<>>),
     atRule(S_at_property, S_var_x, <<>>), atRule(S_at_property, S_tw_sort, <<>>)}

InitSort == InitPipeline(ForestsUpTo(MaxSortNodes, SortLeaves, SortContainers),
                         AllFlagSets, {{}}, {TRUE}, {AllFields})

SpecSort == InitSort /\ [][Next]_vars

\* C11: the output of optimizeAst holds, at any depth, no declaration whose
\* value is absent and no declaration whose property is `--tw-sort', for
\* every polyfill flag set, the declarations optimizeAst makes included.
C11_NoAbsentNoSort ==
    Optimized =>
        \A n \in OutputNodes :
            n.kind = "declaration" => (n.value # Undefined /\ n.property # S_tw_sort)

---------------------------------------------------------------------------
(* C12 *)

\* the declarations the pass finds dead: registered theme variables that
\* isVariableUsed reports unused
RegisteredIn(o, list) == SeqToSet(MapGet(o.cssThemeVariables, list))

DeadIn(o, list) ==
    {d \in RegisteredIn(o, list) : ~isVariableUsed(d.property, o.used, o.variableDependencies)}

DeadDeclarations(o) ==
    UNION {DeadIn(o, o.cssThemeVariables[i].k) : i \in 1..Len(o.cssThemeVariables)}

\* removing the dead declarations below a container leaves it empty: it has
\* children, and each is a dead declaration or a container left empty
RECURSIVE BecomesEmpty(_, _)
BecomesEmpty(o, n) ==
    /\ Len(n.nodes) > 0
    /\ \A i \in 1..Len(n.nodes) :
          LET c == n.nodes[i]
          IN IF c.kind = "declaration" THEN c \in DeadDeclarations(o)
             ELSE HasNodes(c) /\ BecomesEmpty(o, c)

ContainersOf(nodes) == {n \in SeqToSet(Flat(nodes)) : HasNodes(n)}

\* C12: when removing the dead theme variables empties a rule, the rule is
\* removed, and the removal goes up only through at-rules that are left
\* empty themselves: a container that keeps a child is never removed.
C12_AscentStopsAtNonEmpty ==
    pc = "variables" =>
        /\ \A n \in ContainersOf(prev.newAst) :
              (n.kind = "rule" /\ n.nodes # <<>>
               /\ SeqToSet(n.nodes) \subseteq DeadIn(prev, NodesOf(n.id)))
                  => n.id \notin {m.id : m \in SeqToSet(Flat(opt.newAst))}
        /\ \A n \in ContainersOf(prev.newAst) :
              n.id \notin {m.id : m \in SeqToSet(Flat(opt.newAst))} => BecomesEmpty(prev, n)

---------------------------------------------------------------------------
(* C13 *)

\* C13: in tracking mode the cursor of toCss never goes back and counts
\* every character printed, the text of fields without an Offsets record and
\* the filler text included: every span recorded ends where the text printed
\* so far ends at most, and when toCss ends the cursor is the length of the
\* text returned.
C13_CursorCountsAll ==
    (pc = "serialized" /\ track) =>
        /\ pos = Len(css)
        /\ \A k \in 1..Len(writes) : writes[k].span[1] <= writes[k].span[2]
        /\ \A k \in 1..Len(writes), m \in 1..Len(writes) :
              k < m => writes[k].span[2] <= writes[m].span[2]

---------------------------------------------------------------------------
(* C14 *)

\* inputs with at-roots inside and outside theme contexts, @keyframes and
\* @property rules, and theme variables, some of them set to `initial'; the
\* theme flag of the contexts is a string
AtRootLeaves == {decl(S_var_a, S_initial, FALSE), decl(S_var_a, S_one, FALSE)}
AtRootContainers ==
    {atRoot(<<>>), context(NamedThemeContext, <<>>), styleRule(S_sel_a, <<>>),
     atRule(S_at_keyframes, S_spin, <<>>), atRule(S_at_property, S_var_x, <<>>)}

InitAtRoot == InitPipeline(ForestsUpTo(MaxNodes, AtRootLeaves, AtRootContainers),
                           {{}}, {{}}, {TRUE}, {AllFields})

SpecAtRoot == InitAtRoot /\ [][Next]_vars

\* the ancestors of an input node up to (not including) the nearest at-root
RECURSIVE AncestorsBelowAtRoot(_)
AncestorsBelowAtRoot(id) ==
    IF InputParent(id) = RootId \/ InputNode(InputParent(id)).kind = "at-root" THEN <<>>
    ELSE <<InputNode(InputParent(id))>> \o AncestorsBelowAtRoot(InputParent(id))

IsThemeContext(n) == n.kind = "context" /\ Truthy(n.context, "theme")
IsKeyframes(n) == n.kind = "at-rule" /\ n.name = S_at_keyframes

\* the @property rules transform is called with at depth 0, and the first
\* of them: the others are dropped with all they hold
PropertiesAtDepthZero == {n \in InputNodes : IsProperty(n) /\ TransformDepth(n.id) = 0}
DroppedProperty(n) ==
    n \in PropertiesAtDepthZero /\ \E m \in PropertiesAtDepthZero : m.id[2] < n.id[2]

\* transform is called with the input node
Reached(id) == \A k \in 1..Len(Ancestors(id)) : ~DroppedProperty(Ancestors(id)[k])

\* what transform recorded of the theme
RegisteredDeclarations ==
    UNION {{d.id : d \in RegisteredIn(opt, opt.cssThemeVariables[i].k)} : i \in 1..Len(opt.cssThemeVariables)}
RegisteredKeyframes == {opt.keyframes[i].id : i \in 1..Len(opt.keyframes)}

\* the flags of the given ancestors apply to the input nodes: a variable set
\* to `initial' is cleared under a theme, another one is registered under a
\* theme outside @keyframes, and a @keyframes rule is registered under a theme
FlagsApply(ancestors(_)) ==
    \A n \in InputNodes :
        LET theme == \E k \in 1..Len(ancestors(n.id)) : IsThemeContext(ancestors(n.id)[k])
            keyframes == \E k \in 1..Len(ancestors(n.id)) : IsKeyframes(ancestors(n.id)[k])
        IN Reached(n.id) =>
              /\ (n.kind = "declaration" /\ n.value = S_initial) => (n.id \in opt.cleared <=> theme)
              /\ (n.kind = "declaration" /\ n.value # S_initial) =>
                    (n.id \in RegisteredDeclarations <=> (theme /\ ~keyframes))
              /\ IsKeyframes(n) => (n.id \in RegisteredKeyframes <=> theme)

\* the children of an at-root are transformed at depth 0, and what each
\* gives is appended in order to the one hoisted list
DepthZeroAndAppended ==
    /\ \A n \in PropertiesAtDepthZero :
          (Reached(n.id) /\ DroppedProperty(n))
              => n.id \notin {m.id : m \in SeqToSet(Flat(opt.newAst \o opt.atRoots))}
    /\ (PropertiesAtDepthZero # {}) <=> (S_var_x \in opt.seenAtProperties)
    /\ \A n \in InputNodes :
          (Reached(n.id) /\ Hoisted(n.id) /\ n.kind = "declaration" /\ n.value # S_initial)
              => n.id \in {m.id : m \in SeqToSet(opt.atRoots)}
    /\ \A i \in 1..Len(opt.atRoots), j \in 1..Len(opt.atRoots) :
          (i < j /\ SourceAtRoot(opt.atRoots[i].id) = SourceAtRoot(opt.atRoots[j].id))
              => opt.atRoots[i].id[2] < opt.atRoots[j].id[2]

\* C14 as stated: each child of an at-root is transformed with an empty
\* context and depth 0, so that the flags of the context nodes and @keyframes
\* rules enclosing the at-root do not apply below it; what each child gives
\* is appended in order to the hoisted list.
C14_Original ==
    pc = "transformed" => (FlagsApply(AncestorsBelowAtRoot) /\ DepthZeroAndAppended)

\* C14 (amended): each child of an at-root is transformed with the context
\* the at-root itself is transformed with, unchanged, and depth 0, so that
\* the flags of the context nodes and @keyframes rules enclosing the at-root
\* do apply below it; what each child gives is appended in order to the
\* hoisted list.
C14_AtRootKeepsContext ==
    pc = "transformed" => (FlagsApply(Ancestors) /\ DepthZeroAndAppended)

\* a theme variable set to `initial' under an at-root inside a theme context
\* has been cleared, and a @property rule under an at-root inside a rule has
\* been seen
C14_Witness ==
    /\ pc = "transformed"
    /\ \E n \in InputNodes :
          /\ n.kind = "declaration" /\ n.value = S_initial /\ n.id \in opt.cleared
          /\ ~\E k \in 1..Len(AncestorsBelowAtRoot(n.id)) : IsThemeContext(AncestorsBelowAtRoot(n.id)[k])
    /\ \E n \in InputNodes :
          /\ n.kind = "declaration" /\ n.value # S_initial /\ Hoisted(n.id)
          /\ n.id \in RegisteredDeclarations

---------------------------------------------------------------------------
(* C15 *)

\* upper bound on the number of nodes inside the theme context of an input
\* with @keyframes rules
MaxKeyframeNodes == 4

S_animate_x == S_animate_prefix \o <<"x">>

\* inputs with a theme: @keyframes rules, empty or not, under an at-root,
\* under a rule, and directly in the theme; `animation' declarations and an
\* `--animate-x' theme variable that name one of them, one declaration with
\* two names and a tab between them
KeyframeLeaves ==
    {decl(S_animation, S_spin, FALSE), decl(S_animation, S_note \o <<"\t">> \o S_spin, FALSE),
     decl(S_animate_x, S_spin, FALSE)}
KeyframeContainers ==
    {atRoot(<<>>), styleRule(S_sel_a, <<>>),
     atRule(S_at_keyframes, S_spin, <<>>), atRule(S_at_keyframes, S_note, <<>>)}

InitKeyframes ==
    InitPipeline({<<context(ThemeContext, f)>> :
                     f \in ForestsUpTo(MaxKeyframeNodes, KeyframeLeaves, KeyframeContainers)},
                 {{}}, {{}, {S_animate_x}}, {TRUE}, {AllFields})

SpecKeyframes == InitKeyframes /\ [][Next]_vars

\* the nodes optimizeAst holds, in the main tree and in the hoisted list
HeldIds(o) == {n.id : n \in SeqToSet(Flat(o.newAst \o o.atRoots))}

ThemeKeyframes == {n \in InputNodes : IsKeyframes(n) /\ InTheme(n.id)}

\* C15: after the keyframe pass, a `@keyframes' rule defined under a theme
\* whose name is not in the set of used names is nowhere in the tree,
\* wherever it was defined, and one whose name is used is still there.
C15_DeadKeyframes ==
    pc = "keyframes" =>
        \A k \in ThemeKeyframes :
            /\ k.params \notin opt.usedKeyframeNames => k.id \notin HeldIds(opt)
            /\ (k.params \in opt.usedKeyframeNames /\ k.id \in HeldIds(prev)) => k.id \in HeldIds(opt)

---------------------------------------------------------------------------
(* C16 *)

\* trees with every kind of container
AllContainers ==
    {styleRule(S_sel_a, <<>>), atRule(S_media, S_print, <<>>),
     context(ThemeContext, <<>>), atRoot(<<>>)}

InitWalkDepthAll ==
    InitWalker(ForestsUpTo(MaxWalkNodes, WalkLeaves, AllContainers), {"walkDepth"})

SpecWalkDepthAll == InitWalkDepthAll /\ [][NextWalkDepth]_vars

\* the visits made before visit k
VisitedBefore(k) == {visits[m].node : m \in 1..(k - 1)}

NonContext(ids) == {id \in ids : wtree.kind[id] # "context"}

\* C16: when the visitor replaces nothing, walkDepth visits a node only
\* after all the nodes below it, and when it returns it has visited every
\* node that is no context node exactly once, the children of rules,
\* at-rules, context nodes and at-roots included.
C16_PostOrderAll ==
    (wfn = "walkDepth" /\ events = <<>>) =>
        /\ \A k \in 1..Len(visits) :
              NonContext(Below(wtree, visits[k].node)) \subseteq VisitedBefore(k)
        /\ (Returned /\ ret = "undefined") =>
              \A n \in InputNodes :
                  n.kind # "context" =>
                      Cardinality({k \in 1..Len(visits) : visits[k].node = n.id}) = 1

---------------------------------------------------------------------------
(* C17 *)

\* C17: in one toCss call on the tree optimizeAst returned, every Offsets
\* record gets its dst from the fields of one printed node only (a body is
\* opened and then widened by the same node), and a call without track
\* writes no dst.
C17_DstWriteOnce ==
    pc \in {"printed", "serialized"} =>
        /\ \A k \in 1..Len(writes), m \in 1..Len(writes) :
              writes[k].key = writes[m].key => writes[k].node = writes[m].node
        /\ \A k \in 1..Len(writes), m \in 1..Len(writes) :
              (k < m /\ writes[k].key = writes[m].key)
                  => (writes[k].key[3] = "body" /\ writes[k].span[1] = writes[m].span[1])
        /\ ~track => (writes = <<>> /\ DOMAIN dst = {})

---------------------------------------------------------------------------
(* C18 *)

\* inputs with leading comments, @charset and @import rules, `@layer
\* properties' statements and @property rules, with and without the polyfill
PlacementLeaves ==
    {comment(S_note), atRule(S_at_charset, S_note, <<>>), atRule(S_at_import, S_note, <<>>),
     atRule(S_at_layer, S_properties, <<>>), decl(S_inherits, S_true, FALSE)}
PlacementContainers == {atRule(S_at_property, S_var_x, <<>>), atRoot(<<>>)}

InitPlacement == InitPipeline(ForestsUpTo(MaxNodes, PlacementLeaves, PlacementContainers),
                              {{}, {"AtProperty"}}, {{}}, {TRUE}, {AllFields})

SpecPlacement == InitPlacement /\ [][Next]_vars

\* a license comment, @charset or @import
IsLeading(node) ==
    \/ node.kind = "comment"
    \/ node.kind = "at-rule" /\ node.name \in {S_at_charset, S_at_import}

\* the statement `@layer properties;'
IsMarker(node) ==
    node.kind = "at-rule" /\ node.name = S_at_layer /\ node.params = S_properties
        /\ node.nodes = <<>>

\* the rule of a selector over the given declarations, whatever its identity
IsRuleOver(node, selector, declarations) ==
    /\ node.kind = "rule" /\ node.selector = selector
    /\ Len(node.nodes) = Len(declarations)
    /\ \A i \in 1..Len(declarations) :
          /\ node.nodes[i].kind = "declaration"
          /\ node.nodes[i].property = declarations[i].property
          /\ node.nodes[i].value = declarations[i].value

\* `@layer properties { @supports (...) { fallback rules } }' over the
\* fallbacks collected in o
IsFallbackLayer(node, o) ==
    /\ node.kind = "at-rule" /\ node.name = S_at_layer /\ node.params = S_properties
    /\ Len(node.nodes) = 1
    /\ LET supports == node.nodes[1]
           root == o.propertyFallbacksRoot
           universal == o.propertyFallbacksUniversal
       IN /\ supports.kind = "at-rule" /\ supports.name = S_at_supports
          /\ supports.params = S_supports_query
          /\ Len(supports.nodes) = (IF Len(root) > 0 THEN 1 ELSE 0)
                                    + (IF Len(universal) > 0 THEN 1 ELSE 0)
          /\ Len(root) > 0 => IsRuleOver(supports.nodes[1], S_root_host, root)
          /\ Len(universal) > 0 =>
                IsRuleOver(supports.nodes[Len(supports.nodes)], S_universal, universal)

\* some fallback was collected by the transform
FallbackCollected(o) ==
    Len(o.propertyFallbacksRoot) + Len(o.propertyFallbacksUniversal) > 0

\* C18: with the at-property polyfill and a collected fallback, the output
\* has an empty `@layer properties' marker with only comments, @charset and
\* @import before it and none of these right after it, and ends with the
\* `@layer properties' rule that wraps the @supports fallback rules;
\* otherwise the fallback step adds no node.
C18_FallbackPlacement ==
    pc = "optimized" =>
        LET out == opt.newAst
            base == prev.newAst \o prev.atRoots
        IN IF "AtProperty" \in polyfills /\ FallbackCollected(prev)
           THEN /\ \E i \in 1..Len(out) :
                      /\ IsMarker(out[i])
                      /\ \A j \in 1..(i - 1) : IsLeading(out[j])
                      /\ i < Len(out) => ~IsLeading(out[i + 1])
                /\ Len(out) = Len(base) + 2
                /\ IsFallbackLayer(out[Len(out)], prev)
           ELSE out = base

\* a marker put after a leading comment and before a node that is kept, and
\* the wrapped fallbacks after that node
C18_Witness ==
    /\ pc = "optimized"
    /\ "AtProperty" \in polyfills /\ FallbackCollected(prev)
    /\ Len(opt.newAst) >= 4
    /\ IsLeading(opt.newAst[1])
    /\ \E i \in 2..(Len(opt.newAst) - 2) :
          IsMarker(opt.newAst[i]) /\ opt.newAst[i].id = <<"marker", 0>>
    /\ IsFallbackLayer(opt.newAst[Len(opt.newAst)], prev)

---------------------------------------------------------------------------
(* C19 *)

\* upper bound on the number of nodes of a tree walked through contexts
MaxContextNodes == 4

\* a context that sets the key an enclosing theme context sets, to another
\* value
UnthemedContext == [k \in {"theme"} |-> FALSE]

\* inputs with contexts in contexts, in rules and around rules
NestedContainers ==
    {styleRule(S_sel_a, <<>>), context(ThemeContext, <<>>), context(UnthemedContext, <<>>)}

\* the trees of n nodes in which every node has one child at most
RECURSIVE Chains(_)
Chains(n) ==
    IF n = 1 THEN WalkLeaves \cup NestedContainers
    ELSE {[c EXCEPT !.nodes = <<t>>] : c \in NestedContainers, t \in Chains(n - 1)}

\* the lists of trees of fewer nodes than the bound, and the chains of as
\* many nodes
NestedForests ==
    ForestsUpTo(MaxContextNodes - 1, WalkLeaves, NestedContainers)
        \cup {<<t>> : t \in Chains(MaxContextNodes)}

InitWalkContexts == InitWalker(NestedForests, {"walk"})

SpecWalkContexts == InitWalkContexts /\ [][NextWalk]_vars

\* the node whose list of children holds the node, the root list first
HeapOwner(h, id) ==
    IF \E k \in 1..Len(h.nodes[RootId]) : h.nodes[RootId][k] = id THEN RootId
    ELSE CHOOSE p \in DOMAIN h.nodes : \E k \in 1..Len(h.nodes[p]) : h.nodes[p][k] = id

\* the nodes that enclose a node of the tree, the outermost first
RECURSIVE Enclosing(_, _)
Enclosing(h, id) ==
    LET p == HeapOwner(h, id)
    IN IF p = RootId THEN <<>> ELSE Append(Enclosing(h, p), p)

\* the attributes of the contexts of a chain of nodes, each key with the
\* value the innermost context that sets it gives it
ContextAround(h, chain) ==
    LET setters(key) == {i \in 1..Len(chain) :
                            h.kind[chain[i]] = "context" /\ key \in DOMAIN h.context[chain[i]]}
        keys == UNION {DOMAIN h.context[chain[i]] :
                          i \in {j \in 1..Len(chain) : h.kind[chain[j]] = "context"}}
        innermost(key) == CHOOSE i \in setters(key) : \A j \in setters(key) : j <= i
    IN [key \in keys |-> h.context[chain[innermost(key)]][key]]

\* the nodes of a chain that are no context nodes
WithoutContexts(h, chain) ==
    LET plain(id) == h.kind[id] # "context" IN SelectSeq(chain, plain)

\* what C19 says of one call of the visitor, made on the tree h
TransparentVisit(h, v) ==
    LET chain == Enclosing(h, v.node)
        plain == WithoutContexts(h, chain)
    IN /\ h.kind[v.node] # "context"
       /\ \A k \in 1..Len(v.path) : h.kind[v.path[k]] # "context"
       /\ v.path = Append(plain, v.node)
       /\ v.parent = IF plain = <<>> THEN NoId ELSE plain[Len(plain)]
       /\ v.context = ContextAround(h, chain)

\* C19: walk never calls the visitor with a context node; the path it gives
\* holds no context node, the parent it gives is the nearest enclosing node
\* that is no context (none at the top level), and the context it gives is
\* the attributes of all enclosing context nodes, inner values over outer.
C19_ContextTransparent ==
    [][(wfn = "walk" /\ Len(visits') = Len(visits) + 1)
          => TransparentVisit(wtree, visits'[Len(visits')])]_vars

\* a declaration visited inside a context inside a theme context inside a
\* rule of a tree nothing was replaced in: the inner context sets the key of
\* the outer one to another value, and the parent is the rule
C19_Witness ==
    /\ wfn = "walk" /\ events = <<>>
    /\ \E m \in 1..Len(visits) :
          LET v == visits[m]
              chain == Enclosing(wtree, v.node)
          IN /\ Len(chain) = 3
             /\ wtree.kind[chain[1]] = "rule" /\ v.parent = chain[1]
             /\ wtree.kind[chain[2]] = "context" /\ wtree.context[chain[2]] = ThemeContext
             /\ wtree.kind[chain[3]] = "context" /\ wtree.context[chain[3]] = UnthemedContext
             /\ v.context = UnthemedContext
             /\ v.path = <<chain[1], v.node>>

---------------------------------------------------------------------------
(* C20 *)

\* a hoisted node the keyframe pass may remove: a `@keyframes' rule that
\* was registered as theme-owned and whose name is unused
UnusedThemeKeyframe(o, node) ==
    /\ \E k \in 1..Len(o.keyframes) : o.keyframes[k].id = node.id
    /\ IsKeyframes(node)
    /\ node.params \notin o.usedKeyframeNames

\* the hoisted nodes the keyframe pass has to leave alone, in their order
HoistedToKeep(o, nodes) ==
    LET kept(node) == ~UnusedThemeKeyframe(o, node) IN SelectSeq(nodes, kept)

\* C20: the keyframe pass takes out of the hoisted list only `@keyframes'
\* rules registered as theme-owned whose name is unused; every other
\* hoisted node is still there after it, in the same relative order, also
\* when a registered keyframe is not in the hoisted list.
C20_KeyframePassFrame ==
    pc = "keyframes" =>
        /\ HoistedToKeep(prev, opt.atRoots) = HoistedToKeep(prev, prev.atRoots)
        /\ opt.newAst = prev.newAst

=============================================================================
